---- MODULE Spec2Model ----
\* Model of the tab registry of open-term (useTerminalStore, the five-kind
\* version in src/src/stores/ftpStore.ts lines 319-549): five ordered tab
\* collections plus the single activeTabId. Spec is the store under any
\* sequence of its operations, SpecAsync splits createTerminal and
\* closeTerminal at their await, SpecUI is the store as the tab bar calls it.
\* The transfer list of useFtpStore (the same file, lines 1-316) comes after:
\* SpecStore is the list under any sequence of the store's operations on it,
\* SpecTransfer follows download, upload and uploadFolder through their
\* awaits, with the listeners they register and the notifications of the
\* transfer engine, SpecTransferFair adds that every awaited promise settles.
\* The directory cache of useFtpStore (lines 40-146) follows: SpecCache is the
\* cache under overlapping calls of connect, disconnect, navigateTo, refresh,
\* createDirectory, deleteItem and rename, each followed through its awaits,
\* SpecCacheAdmitted the same with at most MaxInflight calls running.
\* SpecWorkspace is the workspace opening, browsing and closing FTP tabs
\* (ConnectionManager.tsx, src/unnamed/part_006), SpecLocal the local
\* directory of useLocalStore (src/unnamed/part_003).
\* SpecClosing is closeTerminal split at its await beside the operations that
\* open and select tabs, SpecStable the cache over a backend whose filesystem
\* does not change, SpecTree the sorted list of FileTree.tsx, SpecOpen the
\* flows that connect and add a tab (ConnectionForm.tsx, ConnectionManager.tsx)
\* and SpecEffects the listener effects of useTerminalChannel.ts and
\* VncViewer.tsx.
EXTENDS Integers, Sequences, FiniteSets

\* ---------------------------------------------------------------- bounds

\* Tab ids are the integers 1..NumIds (strings in the source); open tabs have
\* distinct ids, so at most NumIds tabs are open at once.
NumIds == 3

\* At most MaxInflight backend calls (create_terminal, close_terminal) are
\* awaited at once.
MaxInflight == 1

\* activeTabId: null
Null == 0

Ids == 1..NumIds

VARIABLES
    tabs,          \* TerminalTab[]
    ftpTabs,       \* FtpTab[]
    sftpTabs,      \* SftpTab[]
    vncTabs,       \* VncTab[]
    rdpTabs,       \* RdpTab[]
    activeTabId,   \* string | null
    pendingCreate, \* number of createTerminal calls awaiting create_terminal
    pendingClose,  \* per id, number of closeTerminal calls awaiting close_terminal
    lastOp,        \* the store operation that ran last, and its argument
    ftpId,         \* useFtpStore: string | null, the connection of the store
    transfers,     \* useFtpStore: TransferProgress[]
    call,          \* per start call (download, upload, uploadFolder): its position
    listeners,     \* per transfer id and channel: the listener's registration
    backend,       \* per transfer id: the transfer engine, and the reason of its failure
    handled,       \* per transfer id: the terminal notification whose handler ran
    refreshCalls,  \* per transfer id: calls of refresh() made by its handlers
    thrown,        \* per transfer id: whether a handler of it raised an error
    lastT,         \* the operation on the transfer list that was called last
    cache,         \* useFtpStore: currentPath, files, loading, error
    ops,           \* per call of an operation of useFtpStore: its position
    sessions,      \* per session id of the backend: not opened, open or closed
    sessionOf,     \* per FTP tab: the session that was connected for it
    local,         \* useLocalStore: currentPath, files, loading, error
    localOps,      \* per call of an operation of useLocalStore: its position
    cwd,           \* the working directory of the FTP session at the backend
    trip,          \* a navigateTo then a refresh with no other call between: how far it is
    tree,          \* FileTree: its files prop and the sortedFiles it presents
    flow,          \* the open flow of the connection form or manager: its kind and position
    termRuns,      \* useTerminalChannel: the runs of the output effect, their listener and cleanup
    unlistenRef,   \* useTerminalChannel: unlistenRef.current, the run whose unlisten it holds
    vncRuns        \* VncViewer: the runs of the frame effect, their two listeners and cleanup

colls == <<tabs, ftpTabs, sftpTabs, vncTabs, rdpTabs>>
xferVars == <<ftpId, transfers, call, listeners, backend, handled,
              refreshCalls, thrown, lastT>>
tabVars == <<tabs, ftpTabs, sftpTabs, vncTabs, rdpTabs, activeTabId,
             pendingCreate, pendingClose, lastOp>>
trackVars == <<transfers, call, listeners, backend, handled, refreshCalls,
               thrown, lastT>>
viewVars == <<cwd, trip, tree, flow, termRuns, unlistenRef, vncRuns>>
dirVars == <<cache, ops, sessions, sessionOf, local, localOps, viewVars>>
vars == <<tabs, ftpTabs, sftpTabs, vncTabs, rdpTabs, activeTabId,
          pendingCreate, pendingClose, lastOp, ftpId, transfers, call,
          listeners, backend, handled, refreshCalls, thrown, lastT,
          cache, ops, sessions, sessionOf, local, localOps, cwd, trip, tree,
          flow, termRuns, unlistenRef, vncRuns>>

\* ---------------------------------------------------------------- helpers

\* The operation that ran last: its name, its argument, and for a close
\* whether the argument was the active tab and was in the collection.
Op(name, arg, active, present) ==
    [op |-> name, id |-> arg, wasActive |-> active, found |-> present]

\* A tab record; only its id takes part in the store's logic.
Tab(i) == [id |-> i]

RECURSIVE SumOver(_, _)
SumOver(f, S) ==
    IF S = {} THEN 0
    ELSE LET x == CHOOSE y \in S : TRUE IN f[x] + SumOver(f, S \ {x})

\* Ids of the records of a collection.
IdsOf(s) == {s[i].id : i \in 1..Len(s)}

OpenIds == IdsOf(tabs) \cup IdsOf(ftpTabs) \cup IdsOf(sftpTabs)
           \cup IdsOf(vncTabs) \cup IdsOf(rdpTabs)

NumOpen == Len(tabs) + Len(ftpTabs) + Len(sftpTabs) + Len(vncTabs) + Len(rdpTabs)

Inflight == pendingCreate + SumOver(pendingClose, Ids)

\* The id of a new tab (a backend session id, or `ftp-${Date.now()}` and
\* the like) is the id of no open tab and of no close still awaited.
FreshId(id) == id \notin OpenIds /\ pendingClose[id] = 0

\* Variant of AppendTab that puts the new tab first.
AppendTabFirst(s, t) == <<t>> \o s

\* [...state.xTabs, newTab]
AppendTab(s, t) == Append(s, t)

\* Variant of FilterOut that drops the last record, whatever its id.
FilterOutLast(s, tabId) == IF Len(s) = 0 THEN s ELSE SubSeq(s, 1, Len(s) - 1)

\* state.xTabs.filter((tab) => tab.id !== tabId)
FilterOut(s, tabId) == SelectSeq(s, LAMBDA t : t.id # tabId)

\* state.xTabs.findIndex((tab) => tab.id === tabId): 0-based, -1 when absent
FindIndex(s, tabId) ==
    IF \E i \in 1..Len(s) : s[i].id = tabId
    THEN (CHOOSE i \in 1..Len(s) :
             /\ s[i].id = tabId
             /\ \A j \in 1..(i - 1) : s[j].id # tabId) - 1
    ELSE -1

\* Math.min
Min(a, b) == IF a <= b THEN a ELSE b

\* xs[i]?.id ?? null, i a 0-based index
IdAt(s, i) == IF i >= 0 /\ i < Len(s) THEN s[i + 1].id ELSE Null

\* Variant of SlideIn that selects the tab before the closed one.
SlideInPrevious(newTabs, closedIndex) == IdAt(newTabs, closedIndex - 1)

\* newTabs[Math.min(closedIndex, newTabs.length - 1)]?.id ?? null
SlideIn(newTabs, closedIndex) == IdAt(newTabs, Min(closedIndex, Len(newTabs) - 1))

\* ---------------------------------------------------------------- new active tab on close

\* Variant of CloseTerminalActive that selects a new active tab on every close.
CloseTerminalActiveAlways(tabId) ==
    LET newTabs == FilterOut(tabs, tabId)
        closedIndex == FindIndex(tabs, tabId) IN
    IF Len(newTabs) > 0 THEN SlideIn(newTabs, closedIndex) ELSE Null

\* Variant of CloseTerminalActive that never moves the active tab.
CloseTerminalActiveKeep(tabId) == activeTabId

\* closeTerminal, the body of its set((state) => ...)
CloseTerminalActive(tabId) ==
    LET newTabs == FilterOut(tabs, tabId) IN
    IF activeTabId = tabId
    THEN LET closedIndex == FindIndex(tabs, tabId) IN
         IF Len(newTabs) > 0 THEN SlideIn(newTabs, closedIndex)
         ELSE Null
    ELSE activeTabId

\* closeFtpTab
CloseFtpActive(tabId) ==
    LET newFtpTabs == FilterOut(ftpTabs, tabId) IN
    IF activeTabId = tabId
    THEN LET closedIndex == FindIndex(ftpTabs, tabId) IN
         IF Len(newFtpTabs) > 0 THEN SlideIn(newFtpTabs, closedIndex)
         ELSE IF Len(sftpTabs) > 0 THEN IdAt(sftpTabs, 0)
         ELSE IF Len(vncTabs) > 0 THEN IdAt(vncTabs, 0)
         ELSE IF Len(rdpTabs) > 0 THEN IdAt(rdpTabs, 0)
         ELSE Null
    ELSE activeTabId

\* Variant of CloseSftpActive that does not consider the terminal tabs.
CloseSftpActiveNoTerminal(tabId) ==
    LET newSftpTabs == FilterOut(sftpTabs, tabId) IN
    IF activeTabId = tabId
    THEN LET closedIndex == FindIndex(sftpTabs, tabId) IN
         IF Len(newSftpTabs) > 0 THEN SlideIn(newSftpTabs, closedIndex)
         ELSE IF Len(ftpTabs) > 0 THEN IdAt(ftpTabs, 0)
         ELSE IF Len(vncTabs) > 0 THEN IdAt(vncTabs, 0)
         ELSE IF Len(rdpTabs) > 0 THEN IdAt(rdpTabs, 0)
         ELSE Null
    ELSE activeTabId

\* closeSftpTab
CloseSftpActive(tabId) ==
    LET newSftpTabs == FilterOut(sftpTabs, tabId) IN
    IF activeTabId = tabId
    THEN LET closedIndex == FindIndex(sftpTabs, tabId) IN
         IF Len(newSftpTabs) > 0 THEN SlideIn(newSftpTabs, closedIndex)
         ELSE IF Len(tabs) > 0 THEN IdAt(tabs, 0)
         ELSE IF Len(ftpTabs) > 0 THEN IdAt(ftpTabs, 0)
         ELSE IF Len(vncTabs) > 0 THEN IdAt(vncTabs, 0)
         ELSE IF Len(rdpTabs) > 0 THEN IdAt(rdpTabs, 0)
         ELSE Null
    ELSE activeTabId

\* Variant of CloseVncActive that runs the fallback on every close.
CloseVncActiveAlways(tabId) ==
    LET newVncTabs == FilterOut(vncTabs, tabId)
        closedIndex == FindIndex(vncTabs, tabId) IN
    IF Len(newVncTabs) > 0 THEN SlideIn(newVncTabs, closedIndex)
    ELSE IF Len(tabs) > 0 THEN IdAt(tabs, 0)
    ELSE IF Len(ftpTabs) > 0 THEN IdAt(ftpTabs, 0)
    ELSE IF Len(sftpTabs) > 0 THEN IdAt(sftpTabs, 0)
    ELSE IF Len(rdpTabs) > 0 THEN IdAt(rdpTabs, 0)
    ELSE Null

\* closeVncTab
CloseVncActive(tabId) ==
    LET newVncTabs == FilterOut(vncTabs, tabId) IN
    IF activeTabId = tabId
    THEN LET closedIndex == FindIndex(vncTabs, tabId) IN
         IF Len(newVncTabs) > 0 THEN SlideIn(newVncTabs, closedIndex)
         ELSE IF Len(tabs) > 0 THEN IdAt(tabs, 0)
         ELSE IF Len(ftpTabs) > 0 THEN IdAt(ftpTabs, 0)
         ELSE IF Len(sftpTabs) > 0 THEN IdAt(sftpTabs, 0)
         ELSE IF Len(rdpTabs) > 0 THEN IdAt(rdpTabs, 0)
         ELSE Null
    ELSE activeTabId

\* Variant of CloseRdpActive that keeps activeTabId when no tab is left.
CloseRdpActiveStale(tabId) ==
    LET newRdpTabs == FilterOut(rdpTabs, tabId) IN
    IF activeTabId = tabId
    THEN LET closedIndex == FindIndex(rdpTabs, tabId) IN
         IF Len(newRdpTabs) > 0 THEN SlideIn(newRdpTabs, closedIndex)
         ELSE IF Len(tabs) > 0 THEN IdAt(tabs, 0)
         ELSE IF Len(ftpTabs) > 0 THEN IdAt(ftpTabs, 0)
         ELSE IF Len(sftpTabs) > 0 THEN IdAt(sftpTabs, 0)
         ELSE IF Len(vncTabs) > 0 THEN IdAt(vncTabs, 0)
         ELSE activeTabId
    ELSE activeTabId

\* closeRdpTab
CloseRdpActive(tabId) ==
    LET newRdpTabs == FilterOut(rdpTabs, tabId) IN
    IF activeTabId = tabId
    THEN LET closedIndex == FindIndex(rdpTabs, tabId) IN
         IF Len(newRdpTabs) > 0 THEN SlideIn(newRdpTabs, closedIndex)
         ELSE IF Len(tabs) > 0 THEN IdAt(tabs, 0)
         ELSE IF Len(ftpTabs) > 0 THEN IdAt(ftpTabs, 0)
         ELSE IF Len(sftpTabs) > 0 THEN IdAt(sftpTabs, 0)
         ELSE IF Len(vncTabs) > 0 THEN IdAt(vncTabs, 0)
         ELSE Null
    ELSE activeTabId

\* Variant of SetActiveValue that ignores the id of no open tab.
SetActiveValueIfOpen(tabId) == IF tabId \in OpenIds THEN tabId ELSE activeTabId

\* set({ activeTabId: tabId })
SetActiveValue(tabId) == tabId

\* ---------------------------------------------------------------- the transfer tracker

\* The transfer list of useFtpStore (src/src/stores/ftpStore.ts lines 1-316;
\* the SFTP store in src/unnamed/part_005 has the same code with other channel
\* names). Transfer ids are the integers 1..NumTransfers (strings in the
\* source); the backend gives every transfer an id of its own.
NumTransfers == 2

\* Byte counts of a progress notification range over 0..MaxBytes.
MaxBytes == 1

\* At most NumCalls calls of download, upload and uploadFolder are made.
NumCalls == 1

TIds == 1..NumTransfers

\* The calls, each named by the id the backend gives to its transfer.
CallIds == 1..NumCalls

\* The size of the transferred file, the total of every progress
\* notification.
FileSize == MaxBytes

\* The payload of a failure notification.
Reasons == {"timeout", "denied"}

\* The three operations that start a transfer.
StartKinds == {"download", "upload", "uploadFolder"}

\* The three channels of a transfer: ftp-transfer-progress-<id>,
\* ftp-transfer-complete-<id>, ftp-transfer-error-<id>.
Channels == {"progress", "complete", "error"}

\* TransferStatus: "Pending" | "InProgress" | "Completed" | { Failed: string }
\* | "Cancelled"; a record here, with an empty reason unless Failed.
Status(name) == [tag |-> name, reason |-> ""]

Pending == Status("Pending")

InProgress == Status("InProgress")

Completed == Status("Completed")

Cancelled == Status("Cancelled")

Failed(r) == [tag |-> "Failed", reason |-> r]

StatusValues == {Pending, InProgress, Completed, Cancelled} \cup {Failed(r) : r \in Reasons}

\* The record the backend returns for a started transfer: nothing
\* transferred yet, status Pending.
NewTransfer(i, kind) ==
    [id |-> i, is_upload |-> (kind # "download"), total_bytes |-> 0,
     transferred_bytes |-> 0, status |-> Pending]

\* Variant of AppendTransfer that adds the record twice.
AppendTransferTwice(s, t) == Append(Append(s, t), t)

\* [...state.transfers, progress]
AppendTransfer(s, t) == Append(s, t)

\* Variant of Matches that takes every record.
MatchesAny(t, i) == TRUE

\* t.id === id
Matches(t, i) == t.id = i

\* { ...t, transferred_bytes: transferred, total_bytes: total }
SetProgress(t, transferred, total) ==
    [t EXCEPT !.transferred_bytes = transferred, !.total_bytes = total]

\* Variant of SetStatus that marks the record InProgress.
SetStatusInProgress(t, st) == [t EXCEPT !.status = InProgress]

\* { ...t, status: st }
SetStatus(t, st) == [t EXCEPT !.status = st]

\* updateTransferProgress: the new value of transfers
UpdateTransferProgress(s, i, transferred, total) ==
    [j \in 1..Len(s) |->
        IF Matches(s[j], i) THEN SetProgress(s[j], transferred, total) ELSE s[j]]

\* completeTransfer: the new value of transfers
CompleteTransfer(s, i) ==
    [j \in 1..Len(s) |-> IF Matches(s[j], i) THEN SetStatus(s[j], Completed) ELSE s[j]]

\* Variant of FailTransfer that marks the record Completed.
FailTransferAsCompleted(s, i, error) ==
    [j \in 1..Len(s) |-> IF Matches(s[j], i) THEN SetStatus(s[j], Completed) ELSE s[j]]

\* failTransfer: the new value of transfers
FailTransfer(s, i, error) ==
    [j \in 1..Len(s) |-> IF Matches(s[j], i) THEN SetStatus(s[j], Failed(error)) ELSE s[j]]

\* The ids of the records of transfers
TransferIds == {transfers[j].id : j \in 1..Len(transfers)}

\* The record of transfer i, when transfers holds one
TransferOf(i) == transfers[CHOOSE j \in 1..Len(transfers) : transfers[j].id = i]

\* t.status === "InProgress" || t.status === "Pending"
IsActive(t) == t.status.tag \in {"InProgress", "Pending"}

\* The operation on the transfer list that was called last: its name and
\* its arguments.
TOp(name, i, transferred, total, error) ==
    [op |-> name, id |-> i, transferred |-> transferred, total |-> total, reason |-> error]

\* A start call has not been made (idle), awaits the backend's record
\* (invoke), awaits listen() for one of the three channels in turn (listenP,
\* listenC, listenE: the unlisten function of that channel and of the later
\* ones is not assigned yet), has returned (done), returned at once because
\* the store was not connected (skipped), or was rejected by the backend
\* (rejected).
Positions == {"idle", "invoke", "listenP", "listenC", "listenE", "done", "skipped", "rejected"}

\* The transfer engine of the backend for one transfer: not started (idle),
\* running, or ended with the completion notification (completed) or with
\* the failure notification and its reason (failed).
Engine(st, r) == [state |-> st, reason |-> r]

\* A listener is not registered yet (-1), registered (0), or was
\* unsubscribed n times (n).
NotRegistered == -1

Registered == 0

InitTransfers ==
    /\ ftpId = Null
    /\ transfers = <<>>
    /\ call = [i \in TIds |-> [pc |-> "idle", kind |-> "download"]]
    /\ listeners = [i \in TIds |-> [c \in Channels |-> NotRegistered]]
    /\ backend = [i \in TIds |-> Engine("idle", "")]
    /\ handled = [i \in TIds |-> "none"]
    /\ refreshCalls = [i \in TIds |-> 0]
    /\ thrown = [i \in TIds |-> FALSE]
    /\ lastT = TOp("init", Null, 0, 0, "")

\* ---------------------------------------------------------------- directory cache

\* At most MaxOps calls of the operations of a store (connect, disconnect,
\* navigateTo, refresh, createDirectory, deleteItem, rename) run at once.
MaxOps == 2

\* The backend opens at most NumSessions sessions, with the ids 1..NumSessions.
NumSessions == 2

OpIds == 1..MaxOps
SessionIds == 1..NumSessions

\* A string is the sequence of its characters, a path is a string.
Slash == "/"
Root == <<Slash>>
Names == {<<"a">>}

\* `${currentPath}/${name}`
FullPath(currentPath, name) == currentPath \o <<Slash>> \o name

\* The paths the backend answers ftp_pwd with, and the paths the operations
\* are called with: "/" and "/a"
Paths == {Root, <<Slash, "a">>}

\* The failure messages of the backend
Messages == {"denied"}

\* The listings the backend answers ftp_list_dir with (the names of the entries)
Listings == {<<>>, <<"a">>}

\* error: null, no failure message
NoError == ""

\* The state of the store: ftpId: null, currentPath: "/", files: [],
\* loading: false, error: null
InitialCache == [currentPath |-> Root, files |-> <<>>, loading |-> FALSE, error |-> NoError]

\* set({ loading: true, error: null })
SetLoading(c) == [c EXCEPT !.loading = TRUE, !.error = NoError]

\* set({ error: String(error), loading: false }) with the path as well
SetErrorAndPath(c, error) ==
    [c EXCEPT !.error = error, !.loading = FALSE, !.currentPath = Root]

\* set({ error: String(error), loading: false })
SetError(c, error) == [c EXCEPT !.error = error, !.loading = FALSE]

\* set({ currentPath, files, loading: false }) only while loading is true: the
\* answer that arrives first wins
SetListingFirst(c, currentPath, files) ==
    IF c.loading
    THEN [c EXCEPT !.currentPath = currentPath, !.files = files, !.loading = FALSE]
    ELSE c

\* set({ files, loading: false }) with the path left out
SetListingOnly(c, currentPath, files) == [c EXCEPT !.files = files, !.loading = FALSE]

\* set({ currentPath, files, loading: false })
SetListing(c, currentPath, files) ==
    [c EXCEPT !.currentPath = currentPath, !.files = files, !.loading = FALSE]

\* set({ files, loading: false })
SetFiles(c, files) == [c EXCEPT !.files = files, !.loading = FALSE]

\* set({ ftpId: null, host: "", currentPath: "/", files: [] })
SetDisconnected(c) == [c EXCEPT !.currentPath = Root, !.files = <<>>]

\* The positions of a call: idle, or the backend command it awaits
Commands == {"ftp_connect", "ftp_pwd", "ftp_list_dir", "ftp_disconnect",
             "ftp_mkdir", "ftp_delete", "ftp_rename"}
Mutations == {"createDirectory", "deleteItem", "rename"}
OpKinds == {"connect", "disconnect", "navigateTo", "refresh"} \cup Mutations

\* The command createDirectory, deleteItem and rename invoke
CommandOf(kind) ==
    IF kind = "createDirectory" THEN "ftp_mkdir"
    ELSE IF kind = "deleteItem" THEN "ftp_delete" ELSE "ftp_rename"

\* A call that is not running: how the last call of the slot ended (it
\* returned, it returned from its catch block, or its promise rejected), the
\* refresh() calls it made, and the path or the listing the backend answered
\* its last command with
Ended(result, refreshes, path, files) ==
    [kind |-> "none", pc |-> "idle", sid |-> Null, path |-> path, files |-> files,
     result |-> result, refreshes |-> refreshes]

\* A call that awaits a command, with what the code after the await uses: the
\* session connect was given and the one disconnect closes, the path connect
\* was given and the path navigateTo and the mutations sent, the listing
\* navigateTo was given
Awaiting(kind, pc, sid, path, files, refreshes) ==
    [kind |-> kind, pc |-> pc, sid |-> sid, path |-> path, files |-> files,
     result |-> "none", refreshes |-> refreshes]

\* The calls that await a command
Running == {o \in OpIds : ops[o].pc # "idle"}

\* A new call takes the first free slot
Free(o) == ops[o].pc = "idle" /\ \A j \in OpIds : j < o => ops[j].pc # "idle"

\* currentPath.split(/[/\\]/): the segments between the separators
IsSeparator(ch) == ch \in {Slash, "\\"}
RECURSIVE Split(_)
Split(s) ==
    IF s = <<>> THEN << <<>> >>
    ELSE LET rest == Split(Tail(s))
         IN IF IsSeparator(Head(s)) THEN << <<>> >> \o rest
            ELSE << <<Head(s)>> \o Head(rest) >> \o Tail(rest)

\* parts.join("/")
RECURSIVE Join(_)
Join(parts) ==
    IF parts = <<>> THEN <<>>
    ELSE IF Len(parts) = 1 THEN parts[1]
    ELSE parts[1] \o <<Slash>> \o Join(Tail(parts))

\* parts.slice(0, -1)
SliceLast(parts) == SubSeq(parts, 1, Len(parts) - 1)

\* parts.slice(0, -1).join("/") || "/"
ParentPath(currentPath) ==
    LET joined == Join(SliceLast(Split(currentPath)))
    IN IF joined = <<>> THEN Root ELSE joined

\* navigateUp of useLocalStore: if (parts.length <= 1) return, "Already at root"
AtRoot(currentPath) == Len(Split(currentPath)) <= 1

\* The state of useLocalStore: currentPath: "", files: [], loading: false,
\* error: null, selectedFiles: new Set()
InitialLocal ==
    [currentPath |-> <<>>, files |-> <<>>, loading |-> FALSE, error |-> NoError,
     selectedFiles |-> {}]

\* set({ loading: true, error: null, selectedFiles: new Set() })
SetLocalLoading(c) ==
    [c EXCEPT !.loading = TRUE, !.error = NoError, !.selectedFiles = {}]

\* A call of navigateTo of useLocalStore that is not running, and one that
\* awaits local_list_dir for the path it was called with; from is the
\* operation that called navigateTo
LocalEnded == [pc |-> "idle", from |-> "none", path |-> <<>>]
LocalAwaiting(from, path) == [pc |-> "local_list_dir", from |-> from, path |-> path]
LocalFree(o) ==
    localOps[o].pc = "idle" /\ \A j \in OpIds : j < o => localOps[j].pc # "idle"

\* The directory tree of a backend whose filesystem does not change: "/"
\* holds the directory a, which is empty
ListingOf(path) == IF path = Root THEN <<"a">> ELSE <<>>

\* The names of a listing, as a set
NamesIn(files) == {files[i] : i \in 1..Len(files)}

\* path: currentPath of refresh, the directory refresh asks the listing of
RefreshPathRoot(c) == Root
RefreshPath(c) == c.currentPath

\* No navigateTo is running alone or has resolved so, or another call has
\* started since
NoTrip == [stage |-> "none", path |-> <<>>, files |-> <<>>]

\* navigateTo has been called with no call running ("navigating"), it has
\* resolved and written path and files ("navigated"), refresh has been called
\* next ("refreshing") and has resolved ("refreshed")
Trip(stage, path, files) == [stage |-> stage, path |-> path, files |-> files]

\* ---------------------------------------------------------------- the file list

\* A listing has at most MaxFiles entries.
MaxFiles == 3

\* The names of the entries, one letter each, and their types (an entry that
\* is not a Directory is compared as a File is, whatever its type)
Letters == {"A", "a", "B", "b"}
FileTypes == {"Directory", "File"}
FileEntry(name, file_type) == [name |-> name, file_type |-> file_type]
Entries == {FileEntry(name, ft) : name \in Letters, ft \in FileTypes}

\* The listings of a directory: no two entries have the same name
Distinct(files) ==
    \A i, j \in 1..Len(files) : i # j => files[i].name # files[j].name
FileLists ==
    UNION {{files \in [1..n -> Entries] : Distinct(files)} : n \in 0..MaxFiles}

\* The UTF-16 code unit of a letter, the order of < on strings
CodeUnit(ch) ==
    CASE ch = "A" -> 65 [] ch = "B" -> 66 [] ch = "a" -> 97 [] ch = "b" -> 98

\* The collation of a letter: its place in the alphabet first, then lower
\* case before upper case
Primary(ch) == IF ch \in {"A", "a"} THEN 1 ELSE 2
CaseRank(ch) == IF ch \in {"a", "b"} THEN 0 ELSE 1

Sign(n) == IF n < 0 THEN -1 ELSE IF n > 0 THEN 1 ELSE 0

\* A comparison of names by code unit
CodeUnitCompare(x, y) == Sign(CodeUnit(x) - CodeUnit(y))

\* a.name.localeCompare(b.name)
localeCompare(x, y) ==
    IF Primary(x) # Primary(y) THEN Sign(Primary(x) - Primary(y))
    ELSE Sign(CaseRank(x) - CaseRank(y))

\* The comparator of sortedFiles
Compare(a, b) ==
    IF a.file_type = "Directory" /\ b.file_type # "Directory" THEN -1
    ELSE IF a.file_type # "Directory" /\ b.file_type = "Directory" THEN 1
    ELSE localeCompare(a.name, b.name)

\* Array.prototype.sort is stable: an entry goes behind the entries that do
\* not compare greater than it
InsertSorted(sorted, x) ==
    LET notGreater == {i \in 1..Len(sorted) : Compare(sorted[i], x) <= 0}
        k == IF notGreater = {} THEN 0
             ELSE CHOOSE i \in notGreater : \A j \in notGreater : j <= i
    IN SubSeq(sorted, 1, k) \o <<x>> \o SubSeq(sorted, k + 1, Len(sorted))

\* [...files].sort((a, b) => ...)
RECURSIVE SortedFiles(_)
SortedFiles(files) ==
    IF files = <<>> THEN <<>>
    ELSE InsertSorted(SortedFiles(SubSeq(files, 1, Len(files) - 1)), files[Len(files)])

\* files after files.sort(...), which sorts the array of the store in place
SortInPlace(files) == SortedFiles(files)

\* files after [...files].sort(...), which sorts a copy
SortCopy(files) == files

\* ---------------------------------------------------------------- open flows and listener effects

\* The open flows: direct SSH (ConnectionForm handleSubmit), saved connection
\* (ConnectionManager doConnect), VNC and RDP (handleVncConnect,
\* handleRdpConnect and the branches of handleConnect)
FlowKinds == {"direct", "saved", "vnc", "rdp"}
NoFlow == [kind |-> "none", pc |-> "idle"]
Flow(kind, pc) == [kind |-> kind, pc |-> pc]

\* An effect runs at mount and again after each change of sessionId, at most
\* MaxRuns times.
MaxRuns == 3
Runs == 1..MaxRuns

\* The runs an effect has made
RunsOf(runs) == 1..Len(runs)

\* A run of the output effect of useTerminalChannel: the listener of
\* terminal-output-${sessionId} is awaited from listen(), registered or
\* unlistened; cleaned once the cleanup of the run has run
TermRun(pc, cleaned) == [pc |-> pc, cleaned |-> cleaned]

\* A run of the frame effect of VncViewer: setupListeners awaits the listener
\* of vnc-frame-${sessionId}, then the one of vnc-error-${sessionId}; frame
\* and error are the listeners (none, registered, unlistened)
VncRun(pc, frame, error, cleaned) ==
    [pc |-> pc, frame |-> frame, error |-> error, cleaned |-> cleaned]

\* if (unlistenFrame) unlistenFrame(): a listener that is registered when
\* the cleanup runs is removed
Unlisten(listener) == IF listener = "registered" THEN "unlistened" ELSE listener

InitDirectory ==
    /\ flow = NoFlow
    /\ termRuns = <<>>
    /\ unlistenRef = Null
    /\ vncRuns = <<>>
    /\ tree = [files |-> <<>>, sortedFiles |-> <<>>, rendered |-> TRUE]
    /\ cwd = Root
    /\ trip = NoTrip
    /\ cache = InitialCache
    /\ ops = [o \in OpIds |-> Ended("none", 0, <<>>, <<>>)]
    /\ sessions = [sid \in SessionIds |-> "none"]
    /\ sessionOf = [i \in Ids |-> Null]
    /\ local = InitialLocal
    /\ localOps = [o \in OpIds |-> LocalEnded]

\* ---------------------------------------------------------------- state machine

Init ==
    /\ tabs = <<>>
    /\ ftpTabs = <<>>
    /\ sftpTabs = <<>>
    /\ vncTabs = <<>>
    /\ rdpTabs = <<>>
    /\ activeTabId = Null
    /\ pendingCreate = 0
    /\ pendingClose = [i \in Ids |-> 0]
    /\ lastOp = Op("init", Null, FALSE, FALSE)
    /\ InitTransfers
    /\ InitDirectory

\* createTerminal, its set((state) => ...) once the backend has returned the
\* SessionInfo of a new session
createTerminalSet(id) ==
    /\ FreshId(id)
    /\ tabs' = AppendTab(tabs, Tab(id))
    /\ activeTabId' = id
    /\ lastOp' = Op("createTerminal", id, FALSE, FALSE)
    /\ UNCHANGED xferVars
    /\ UNCHANGED dirVars
    /\ UNCHANGED <<ftpTabs, sftpTabs, vncTabs, rdpTabs>>

\* closeTerminal, its set((state) => ...) once close_terminal has resolved
closeTerminalSet(tabId) ==
    /\ tabs' = FilterOut(tabs, tabId)
    /\ activeTabId' = CloseTerminalActive(tabId)
    /\ lastOp' = Op("closeTerminal", tabId, activeTabId = tabId, tabId \in IdsOf(tabs))
    /\ UNCHANGED xferVars
    /\ UNCHANGED dirVars
    /\ UNCHANGED <<ftpTabs, sftpTabs, vncTabs, rdpTabs>>

\* createTerminal as the store sees it: nothing is read or written before the
\* await, so the call takes effect in one step, when the backend answers.
createTerminal(id) ==
    /\ createTerminalSet(id)
    /\ UNCHANGED <<pendingCreate, pendingClose>>

\* closeTerminal as the store sees it, likewise.
closeTerminal(tabId) ==
    /\ closeTerminalSet(tabId)
    /\ UNCHANGED <<pendingCreate, pendingClose>>

addFtpTab(id) ==
    /\ FreshId(id)
    /\ ftpTabs' = AppendTab(ftpTabs, Tab(id))
    /\ activeTabId' = id
    /\ lastOp' = Op("addFtpTab", id, FALSE, FALSE)
    /\ UNCHANGED xferVars
    /\ UNCHANGED dirVars
    /\ UNCHANGED <<tabs, sftpTabs, vncTabs, rdpTabs, pendingCreate, pendingClose>>

closeFtpTab(tabId) ==
    /\ ftpTabs' = FilterOut(ftpTabs, tabId)
    /\ activeTabId' = CloseFtpActive(tabId)
    /\ lastOp' = Op("closeFtpTab", tabId, activeTabId = tabId, tabId \in IdsOf(ftpTabs))
    /\ UNCHANGED xferVars
    /\ UNCHANGED dirVars
    /\ UNCHANGED <<tabs, sftpTabs, vncTabs, rdpTabs, pendingCreate, pendingClose>>

addSftpTab(id) ==
    /\ FreshId(id)
    /\ sftpTabs' = AppendTab(sftpTabs, Tab(id))
    /\ activeTabId' = id
    /\ lastOp' = Op("addSftpTab", id, FALSE, FALSE)
    /\ UNCHANGED xferVars
    /\ UNCHANGED dirVars
    /\ UNCHANGED <<tabs, ftpTabs, vncTabs, rdpTabs, pendingCreate, pendingClose>>

closeSftpTab(tabId) ==
    /\ sftpTabs' = FilterOut(sftpTabs, tabId)
    /\ activeTabId' = CloseSftpActive(tabId)
    /\ lastOp' = Op("closeSftpTab", tabId, activeTabId = tabId, tabId \in IdsOf(sftpTabs))
    /\ UNCHANGED xferVars
    /\ UNCHANGED dirVars
    /\ UNCHANGED <<tabs, ftpTabs, vncTabs, rdpTabs, pendingCreate, pendingClose>>

addVncTab(id) ==
    /\ FreshId(id)
    /\ vncTabs' = AppendTab(vncTabs, Tab(id))
    /\ activeTabId' = id
    /\ lastOp' = Op("addVncTab", id, FALSE, FALSE)
    /\ UNCHANGED xferVars
    /\ UNCHANGED dirVars
    /\ UNCHANGED <<tabs, ftpTabs, sftpTabs, rdpTabs, pendingCreate, pendingClose>>

closeVncTab(tabId) ==
    /\ vncTabs' = FilterOut(vncTabs, tabId)
    /\ activeTabId' = CloseVncActive(tabId)
    /\ lastOp' = Op("closeVncTab", tabId, activeTabId = tabId, tabId \in IdsOf(vncTabs))
    /\ UNCHANGED xferVars
    /\ UNCHANGED dirVars
    /\ UNCHANGED <<tabs, ftpTabs, sftpTabs, rdpTabs, pendingCreate, pendingClose>>

addRdpTab(id) ==
    /\ FreshId(id)
    /\ rdpTabs' = AppendTab(rdpTabs, Tab(id))
    /\ activeTabId' = id
    /\ lastOp' = Op("addRdpTab", id, FALSE, FALSE)
    /\ UNCHANGED xferVars
    /\ UNCHANGED dirVars
    /\ UNCHANGED <<tabs, ftpTabs, sftpTabs, vncTabs, pendingCreate, pendingClose>>

closeRdpTab(tabId) ==
    /\ rdpTabs' = FilterOut(rdpTabs, tabId)
    /\ activeTabId' = CloseRdpActive(tabId)
    /\ lastOp' = Op("closeRdpTab", tabId, activeTabId = tabId, tabId \in IdsOf(rdpTabs))
    /\ UNCHANGED xferVars
    /\ UNCHANGED dirVars
    /\ UNCHANGED <<tabs, ftpTabs, sftpTabs, vncTabs, pendingCreate, pendingClose>>

setActiveTab(tabId) ==
    /\ activeTabId' = SetActiveValue(tabId)
    /\ lastOp' = Op("setActiveTab", tabId, FALSE, FALSE)
    /\ UNCHANGED xferVars
    /\ UNCHANGED dirVars
    /\ UNCHANGED <<tabs, ftpTabs, sftpTabs, vncTabs, rdpTabs, pendingCreate, pendingClose>>

\* The store under any sequence of its operations, with any ids.
Next ==
    \/ \E id \in Ids : createTerminal(id)
    \/ \E id \in Ids : closeTerminal(id)
    \/ \E id \in Ids : addFtpTab(id)
    \/ \E id \in Ids : closeFtpTab(id)
    \/ \E id \in Ids : addSftpTab(id)
    \/ \E id \in Ids : closeSftpTab(id)
    \/ \E id \in Ids : addVncTab(id)
    \/ \E id \in Ids : closeVncTab(id)
    \/ \E id \in Ids : addRdpTab(id)
    \/ \E id \in Ids : closeRdpTab(id)
    \/ \E id \in Ids : setActiveTab(id)

Spec == Init /\ [][Next]_vars

\* ---------------------------------------------------------------- the awaited backend calls

\* createTerminal up to its await invoke("create_terminal")
createTerminalInvoke ==
    /\ Inflight < MaxInflight
    /\ pendingCreate' = pendingCreate + 1
    /\ lastOp' = Op("createTerminalInvoke", Null, FALSE, FALSE)
    /\ UNCHANGED xferVars
    /\ UNCHANGED dirVars
    /\ UNCHANGED <<tabs, ftpTabs, sftpTabs, vncTabs, rdpTabs, activeTabId, pendingClose>>

\* createTerminal from the moment invoke resolves
createTerminalResolve(id) ==
    /\ pendingCreate > 0
    /\ pendingCreate' = pendingCreate - 1
    /\ createTerminalSet(id)
    /\ UNCHANGED pendingClose

\* createTerminal when invoke rejects: the promise rejects before any set()
createTerminalReject ==
    /\ pendingCreate > 0
    /\ pendingCreate' = pendingCreate - 1
    /\ lastOp' = Op("createTerminalReject", Null, FALSE, FALSE)
    /\ UNCHANGED xferVars
    /\ UNCHANGED dirVars
    /\ UNCHANGED <<tabs, ftpTabs, sftpTabs, vncTabs, rdpTabs, activeTabId, pendingClose>>

\* closeTerminal up to its await invoke("close_terminal", { sessionId: tabId })
closeTerminalInvoke(tabId) ==
    /\ Inflight < MaxInflight
    /\ pendingClose' = [pendingClose EXCEPT ![tabId] = @ + 1]
    /\ lastOp' = Op("closeTerminalInvoke", tabId, FALSE, FALSE)
    /\ UNCHANGED xferVars
    /\ UNCHANGED dirVars
    /\ UNCHANGED <<tabs, ftpTabs, sftpTabs, vncTabs, rdpTabs, activeTabId, pendingCreate>>

\* closeTerminal from the moment invoke resolves: the set((state) => ...) on
\* the state current at that time
closeTerminalResolve(tabId) ==
    /\ pendingClose[tabId] > 0
    /\ pendingClose' = [pendingClose EXCEPT ![tabId] = @ - 1]
    /\ closeTerminalSet(tabId)
    /\ UNCHANGED pendingCreate

\* Variant of closeTerminalReject that removes the tab all the same.
closeTerminalRejectRemoves(tabId) ==
    /\ pendingClose[tabId] > 0
    /\ pendingClose' = [pendingClose EXCEPT ![tabId] = @ - 1]
    /\ tabs' = FilterOut(tabs, tabId)
    /\ activeTabId' = CloseTerminalActive(tabId)
    /\ lastOp' = Op("closeTerminalReject", tabId, FALSE, FALSE)
    /\ UNCHANGED xferVars
    /\ UNCHANGED dirVars
    /\ UNCHANGED <<ftpTabs, sftpTabs, vncTabs, rdpTabs, pendingCreate>>

\* closeTerminal when invoke rejects: the promise rejects before any set()
closeTerminalReject(tabId) ==
    /\ pendingClose[tabId] > 0
    /\ pendingClose' = [pendingClose EXCEPT ![tabId] = @ - 1]
    /\ lastOp' = Op("closeTerminalReject", tabId, FALSE, FALSE)
    /\ UNCHANGED xferVars
    /\ UNCHANGED dirVars
    /\ UNCHANGED <<tabs, ftpTabs, sftpTabs, vncTabs, rdpTabs, activeTabId, pendingCreate>>

\* The store with createTerminal and closeTerminal split at their await.
NextAsync ==
    \/ createTerminalInvoke
    \/ \E id \in Ids : createTerminalResolve(id)
    \/ createTerminalReject
    \/ \E id \in Ids : closeTerminalInvoke(id)
    \/ \E id \in Ids : closeTerminalResolve(id)
    \/ \E id \in Ids : closeTerminalReject(id)
    \/ \E id \in Ids : addFtpTab(id)
    \/ \E id \in Ids : closeFtpTab(id)
    \/ \E id \in Ids : addSftpTab(id)
    \/ \E id \in Ids : closeSftpTab(id)
    \/ \E id \in Ids : addVncTab(id)
    \/ \E id \in Ids : closeVncTab(id)
    \/ \E id \in Ids : addRdpTab(id)
    \/ \E id \in Ids : closeRdpTab(id)
    \/ \E id \in Ids : setActiveTab(id)

SpecAsync == Init /\ [][NextAsync]_vars

\* closeTerminal split at its await, beside the operations that open a
\* terminal or an FTP tab and select a tab while close_terminal is awaited.
NextClosing ==
    \/ \E id \in Ids : createTerminal(id)
    \/ \E id \in Ids : closeTerminalInvoke(id)
    \/ \E id \in Ids : closeTerminalResolve(id)
    \/ \E id \in Ids : closeTerminalReject(id)
    \/ \E id \in Ids : addFtpTab(id)
    \/ \E id \in Ids : setActiveTab(id)

SpecClosing == Init /\ [][NextClosing]_vars

\* ---------------------------------------------------------------- the tab bar

\* The store as the tab bar drives it: a tab is clicked or closed through
\* its own element, rendered from the collection it is in.

\* onClick={() => setActiveTab(tab.id)}, tab one of allTabs
tabClick(tabId) ==
    /\ tabId \in OpenIds
    /\ setActiveTab(tabId)

\* handleCloseTab, isFtp
tabCloseFtp(tabId) ==
    /\ tabId \in IdsOf(ftpTabs)
    /\ closeFtpTab(tabId)

\* handleCloseTab, isSftp
tabCloseSftp(tabId) ==
    /\ tabId \in IdsOf(sftpTabs)
    /\ closeSftpTab(tabId)

\* handleCloseTab, isVnc
tabCloseVnc(tabId) ==
    /\ tabId \in IdsOf(vncTabs)
    /\ closeVncTab(tabId)

\* handleCloseTab, isRdp
tabCloseRdp(tabId) ==
    /\ tabId \in IdsOf(rdpTabs)
    /\ closeRdpTab(tabId)

\* handleCloseTab, a terminal tab; a second close of the same tab finds it
\* gone and changes nothing
tabCloseTerminal(tabId) ==
    /\ tabId \in IdsOf(tabs)
    /\ closeTerminal(tabId)

NextUI ==
    \/ \E id \in Ids : createTerminal(id)
    \/ \E id \in Ids : addFtpTab(id)
    \/ \E id \in Ids : addSftpTab(id)
    \/ \E id \in Ids : addVncTab(id)
    \/ \E id \in Ids : addRdpTab(id)
    \/ \E id \in Ids : tabClick(id)
    \/ \E id \in Ids : tabCloseTerminal(id)
    \/ \E id \in Ids : tabCloseFtp(id)
    \/ \E id \in Ids : tabCloseSftp(id)
    \/ \E id \in Ids : tabCloseVnc(id)
    \/ \E id \in Ids : tabCloseRdp(id)

SpecUI == Init /\ [][NextUI]_vars

\* ---------------------------------------------------------------- the transfer store

\* The operations of the store on its transfer list, each one set() call.

\* set((state) => ({ transfers: [...state.transfers, progress] })), progress
\* the record the backend returned for a start call
startSet(i, kind) ==
    /\ i = Len(transfers) + 1
    /\ transfers' = AppendTransfer(transfers, NewTransfer(i, kind))
    /\ lastT' = TOp("startSet", i, 0, 0, "")
    /\ UNCHANGED <<ftpId, call, listeners, backend, handled, refreshCalls, thrown>>
    /\ UNCHANGED tabVars
    /\ UNCHANGED dirVars

updateTransferProgress(i, transferred, total) ==
    /\ transfers' = UpdateTransferProgress(transfers, i, transferred, total)
    /\ lastT' = TOp("updateTransferProgress", i, transferred, total, "")
    /\ UNCHANGED <<ftpId, call, listeners, backend, handled, refreshCalls, thrown>>
    /\ UNCHANGED tabVars
    /\ UNCHANGED dirVars

completeTransfer(i) ==
    /\ transfers' = CompleteTransfer(transfers, i)
    /\ lastT' = TOp("completeTransfer", i, 0, 0, "")
    /\ UNCHANGED <<ftpId, call, listeners, backend, handled, refreshCalls, thrown>>
    /\ UNCHANGED tabVars
    /\ UNCHANGED dirVars

failTransfer(i, error) ==
    /\ transfers' = FailTransfer(transfers, i, error)
    /\ lastT' = TOp("failTransfer", i, 0, 0, error)
    /\ UNCHANGED <<ftpId, call, listeners, backend, handled, refreshCalls, thrown>>
    /\ UNCHANGED tabVars
    /\ UNCHANGED dirVars

\* The transfer list under any sequence of the store's operations on it.
NextStore ==
    \/ \E i \in TIds, kind \in StartKinds : startSet(i, kind)
    \/ \E i \in TIds, transferred \in 0..MaxBytes :
           updateTransferProgress(i, transferred, FileSize)
    \/ \E i \in TIds : completeTransfer(i)
    \/ \E i \in TIds, error \in Reasons : failTransfer(i, error)

SpecStore == Init /\ [][NextStore]_vars

\* ---------------------------------------------------------------- starting and tracking a transfer

\* download, upload and uploadFolder step by step: the call up to its await
\* invoke, the append of the returned record, the three await listen in
\* turn; the event system registers a listener some time before the promise
\* of listen resolves, and the transfer engine emits progress notifications
\* and then one terminal notification, each delivered to the listener
\* registered on its channel at that time, if any. The store is connected
\* once and stays so while transfers run.

\* The channel whose listen() the call awaits
Awaited(pc) ==
    IF pc = "listenP" THEN "progress"
    ELSE IF pc = "listenC" THEN "complete"
    ELSE "error"

\* The position after the awaited listen() has resolved
AfterListen(pc) ==
    IF pc = "listenP" THEN "listenC"
    ELSE IF pc = "listenC" THEN "listenE"
    ELSE "done"

\* Whether the call has assigned the unlisten function of channel c
\* (progressUnsub, completeUnsub, errorUnsub)
Assigned(c, pc) ==
    IF c = "progress" THEN pc \in {"listenC", "listenE", "done"}
    ELSE IF c = "complete" THEN pc \in {"listenE", "done"}
    ELSE pc = "done"

\* One call of an unlisten function
Unsub(row, c) == [row EXCEPT ![c] = @ + 1]

\* progressUnsub(); completeUnsub(); errorUnsub(); the first one that is
\* not assigned yet raises an error and the rest is not run
UnsubAll(row, pc) ==
    IF ~Assigned("progress", pc) THEN row
    ELSE IF ~Assigned("complete", pc) THEN Unsub(row, "progress")
    ELSE IF ~Assigned("error", pc) THEN Unsub(Unsub(row, "progress"), "complete")
    ELSE Unsub(Unsub(Unsub(row, "progress"), "complete"), "error")

\* Whether progressUnsub(); completeUnsub(); errorUnsub() raises an error
UnsubThrows(pc) == \E c \in Channels : ~Assigned(c, pc)

\* Variant of RefreshOnComplete that refreshes after a download too.
RefreshOnCompleteAlways(kind) == 1

\* The refresh() calls of the completion handler of a transfer started by
\* download (none) or by upload and uploadFolder (one)
RefreshOnComplete(kind) == IF kind = "download" THEN 0 ELSE 1

\* connect, its set({ ftpId, ... }) once the backend has answered
connectSet ==
    /\ ftpId' = 1
    /\ cache' = SetListing(cache, Root, <<>>)
    /\ sessions' = [sessions EXCEPT ![1] = "open"]
    /\ UNCHANGED <<transfers, call, listeners, backend, handled, refreshCalls, thrown, lastT>>
    /\ UNCHANGED <<ops, sessionOf, local, localOps, viewVars>>
    /\ UNCHANGED tabVars

\* download, upload, uploadFolder up to await invoke: if (!ftpId) return
startCall(i, kind) ==
    /\ call[i].pc = "idle"
    /\ \A j \in CallIds : j < i => call[j].pc # "idle"
    /\ call' = [call EXCEPT ![i] = [pc |-> IF ftpId = Null THEN "skipped" ELSE "invoke",
                                    kind |-> kind]]
    /\ UNCHANGED <<ftpId, transfers, listeners, backend, handled, refreshCalls, thrown, lastT>>
    /\ UNCHANGED tabVars
    /\ UNCHANGED dirVars

\* invoke resolves with the record of the new transfer, whose id is i: the
\* record is appended and listen() is called for the progress channel
startReturn(i) ==
    /\ call[i].pc = "invoke"
    /\ transfers' = AppendTransfer(transfers, NewTransfer(i, call[i].kind))
    /\ call' = [call EXCEPT ![i].pc = "listenP"]
    /\ backend' = [backend EXCEPT ![i] = Engine("running", "")]
    /\ UNCHANGED <<ftpId, listeners, handled, refreshCalls, thrown, lastT>>
    /\ UNCHANGED tabVars
    /\ UNCHANGED dirVars

\* invoke rejects: the call rejects before any set()
startReject(i) ==
    /\ call[i].pc = "invoke"
    /\ call' = [call EXCEPT ![i].pc = "rejected"]
    /\ UNCHANGED <<ftpId, transfers, listeners, backend, handled, refreshCalls, thrown, lastT>>
    /\ UNCHANGED tabVars
    /\ UNCHANGED dirVars

\* The event system registers the listener of the awaited listen()
listenRegister(i) ==
    /\ call[i].pc \in {"listenP", "listenC", "listenE"}
    /\ listeners[i][Awaited(call[i].pc)] = NotRegistered
    /\ listeners' = [listeners EXCEPT ![i][Awaited(call[i].pc)] = Registered]
    /\ UNCHANGED <<ftpId, transfers, call, backend, handled, refreshCalls, thrown, lastT>>
    /\ UNCHANGED tabVars
    /\ UNCHANGED dirVars

\* The awaited listen() resolves: its unlisten function is assigned and the
\* call goes on to the next listen(), or returns
listenResolve(i) ==
    /\ call[i].pc \in {"listenP", "listenC", "listenE"}
    /\ listeners[i][Awaited(call[i].pc)] # NotRegistered
    /\ call' = [call EXCEPT ![i].pc = AfterListen(@)]
    /\ UNCHANGED <<ftpId, transfers, listeners, backend, handled, refreshCalls, thrown, lastT>>
    /\ UNCHANGED tabVars
    /\ UNCHANGED dirVars

\* The engine emits a progress notification; the progress listener, when
\* registered, runs get().updateTransferProgress(progress.id, ...)
emitProgress(i, transferred, total) ==
    /\ backend[i].state = "running"
    /\ transfers' = IF listeners[i]["progress"] = Registered
                    THEN UpdateTransferProgress(transfers, i, transferred, total)
                    ELSE transfers
    /\ UNCHANGED <<ftpId, call, listeners, backend, handled, refreshCalls, thrown, lastT>>
    /\ UNCHANGED tabVars
    /\ UNCHANGED dirVars

\* The engine emits the completion notification; the completion listener,
\* when registered, runs get().completeTransfer(progress.id), for an upload
\* get().refresh(), then progressUnsub(); completeUnsub(); errorUnsub()
emitComplete(i) ==
    /\ backend[i].state = "running"
    /\ backend' = [backend EXCEPT ![i] = Engine("completed", "")]
    /\ IF listeners[i]["complete"] = Registered
       THEN /\ transfers' = CompleteTransfer(transfers, i)
            /\ refreshCalls' = [refreshCalls EXCEPT ![i] = @ + RefreshOnComplete(call[i].kind)]
            /\ listeners' = [listeners EXCEPT ![i] = UnsubAll(@, call[i].pc)]
            /\ thrown' = [thrown EXCEPT ![i] = @ \/ UnsubThrows(call[i].pc)]
            /\ handled' = [handled EXCEPT ![i] = "complete"]
       ELSE UNCHANGED <<transfers, refreshCalls, listeners, thrown, handled>>
    /\ UNCHANGED <<ftpId, call, lastT>>
    /\ UNCHANGED tabVars
    /\ UNCHANGED dirVars

\* The engine emits the failure notification; the error listener, when
\* registered, runs get().failTransfer(progress.id, event.payload), then
\* progressUnsub(); completeUnsub(); errorUnsub()
emitError(i, error) ==
    /\ backend[i].state = "running"
    /\ backend' = [backend EXCEPT ![i] = Engine("failed", error)]
    /\ IF listeners[i]["error"] = Registered
       THEN /\ transfers' = FailTransfer(transfers, i, error)
            /\ listeners' = [listeners EXCEPT ![i] = UnsubAll(@, call[i].pc)]
            /\ thrown' = [thrown EXCEPT ![i] = @ \/ UnsubThrows(call[i].pc)]
            /\ handled' = [handled EXCEPT ![i] = "error"]
       ELSE UNCHANGED <<transfers, listeners, thrown, handled>>
    /\ UNCHANGED <<ftpId, call, refreshCalls, lastT>>
    /\ UNCHANGED tabVars
    /\ UNCHANGED dirVars

NextTransfer ==
    \/ connectSet
    \/ \E i \in CallIds, kind \in StartKinds : startCall(i, kind)
    \/ \E i \in CallIds : startReturn(i)
    \/ \E i \in CallIds : startReject(i)
    \/ \E i \in CallIds : listenRegister(i)
    \/ \E i \in CallIds : listenResolve(i)
    \/ \E i \in CallIds, transferred \in 0..MaxBytes :
           emitProgress(i, transferred, FileSize)
    \/ \E i \in CallIds : emitComplete(i)
    \/ \E i \in CallIds, error \in Reasons : emitError(i, error)

SpecTransfer == Init /\ [][NextTransfer]_vars

\* Every awaited promise settles: the backend answers a start request, the
\* event system registers a listener and answers listen(). Nothing obliges
\* the user to start a transfer or the engine to end one.
FairTransfer ==
    \A i \in CallIds :
        /\ WF_vars(startReturn(i) \/ startReject(i))
        /\ WF_vars(listenRegister(i))
        /\ WF_vars(listenResolve(i))

SpecTransferFair == Init /\ [][NextTransfer]_vars /\ FairTransfer

\* ---------------------------------------------------------------- navigating the directory cache

\* The operations of useFtpStore on ftpId, currentPath, files, loading and
\* error, each followed through its awaits: a Call action runs the operation
\* up to its first await, the other actions are the backend answering the
\* command the call awaits, with the code that runs after that await.

\* What a cache operation leaves alone
cacheFrame == <<transfers, call, listeners, backend, handled, refreshCalls,
                thrown, lastT, sessionOf, local, localOps, viewVars>>

\* connect up to await invoke("ftp_connect")
connectCall(o) ==
    /\ Free(o)
    /\ cache' = SetLoading(cache)
    /\ ops' = [ops EXCEPT ![o] = Awaiting("connect", "ftp_connect", Null, <<>>, <<>>, 0)]
    /\ UNCHANGED <<ftpId, sessions>>
    /\ UNCHANGED cacheFrame
    /\ UNCHANGED tabVars

\* ftp_connect answers with the id of a new session; await invoke("ftp_pwd")
connectOpened(o, sid) ==
    /\ ops[o].kind = "connect" /\ ops[o].pc = "ftp_connect"
    /\ sessions[sid] = "none"
    /\ \A j \in SessionIds : j < sid => sessions[j] # "none"
    /\ sessions' = [sessions EXCEPT ![sid] = "open"]
    /\ ops' = [ops EXCEPT ![o] = Awaiting("connect", "ftp_pwd", sid, <<>>, <<>>, 0)]
    /\ UNCHANGED <<ftpId, cache>>
    /\ UNCHANGED cacheFrame
    /\ UNCHANGED tabVars

\* ftp_pwd answers with the working directory; await invoke("ftp_list_dir")
connectPwd(o, currentPath) ==
    /\ ops[o].kind = "connect" /\ ops[o].pc = "ftp_pwd"
    /\ ops' = [ops EXCEPT ![o] =
                   Awaiting("connect", "ftp_list_dir", ops[o].sid, currentPath, <<>>, 0)]
    /\ UNCHANGED <<ftpId, cache, sessions>>
    /\ UNCHANGED cacheFrame
    /\ UNCHANGED tabVars

\* ftp_list_dir answers: set({ ftpId, host, currentPath, files, loading: false })
connectListed(o, files) ==
    /\ ops[o].kind = "connect" /\ ops[o].pc = "ftp_list_dir"
    /\ ftpId' = ops[o].sid
    /\ cache' = SetListing(cache, ops[o].path, files)
    /\ ops' = [ops EXCEPT ![o] = Ended("returned", 0, <<>>, files)]
    /\ UNCHANGED sessions
    /\ UNCHANGED cacheFrame
    /\ UNCHANGED tabVars

\* One of the three commands of connect fails:
\* set({ error: String(error), loading: false }); throw error
connectFailed(o, error) ==
    /\ ops[o].kind = "connect"
    /\ cache' = SetError(cache, error)
    /\ ops' = [ops EXCEPT ![o] = Ended("rejected", 0, <<>>, <<>>)]
    /\ UNCHANGED <<ftpId, sessions>>
    /\ UNCHANGED cacheFrame
    /\ UNCHANGED tabVars

\* disconnect: if (ftpId) { await invoke("ftp_disconnect") }, and with no
\* ftpId its set() at once
disconnectCall(o) ==
    /\ Free(o)
    /\ IF ftpId = Null
       THEN /\ cache' = SetDisconnected(cache)
            /\ ops' = [ops EXCEPT ![o] = Ended("returned", 0, <<>>, <<>>)]
       ELSE /\ cache' = cache
            /\ ops' = [ops EXCEPT ![o] =
                           Awaiting("disconnect", "ftp_disconnect", ftpId, <<>>, <<>>, 0)]
    /\ UNCHANGED <<ftpId, sessions>>
    /\ UNCHANGED cacheFrame
    /\ UNCHANGED tabVars

\* ftp_disconnect answers, the backend has closed the session:
\* set({ ftpId: null, host: "", currentPath: "/", files: [] })
disconnectDone(o) ==
    /\ ops[o].kind = "disconnect"
    /\ sessions' = [sessions EXCEPT ![ops[o].sid] = "closed"]
    /\ ftpId' = Null
    /\ cache' = SetDisconnected(cache)
    /\ ops' = [ops EXCEPT ![o] = Ended("returned", 0, <<>>, <<>>)]
    /\ UNCHANGED cacheFrame
    /\ UNCHANGED tabVars

\* ftp_disconnect fails: disconnect rejects before its set()
disconnectFailed(o) ==
    /\ ops[o].kind = "disconnect"
    /\ ops' = [ops EXCEPT ![o] = Ended("rejected", 0, <<>>, <<>>)]
    /\ UNCHANGED <<ftpId, cache, sessions>>
    /\ UNCHANGED cacheFrame
    /\ UNCHANGED tabVars

\* navigateTo up to await invoke("ftp_list_dir", { ftpId, path })
navigateToCall(o, path) ==
    /\ Free(o)
    /\ IF ftpId = Null
       THEN /\ cache' = cache
            /\ ops' = [ops EXCEPT ![o] = Ended("returned", 0, <<>>, <<>>)]
       ELSE /\ cache' = SetLoading(cache)
            /\ ops' = [ops EXCEPT ![o] =
                           Awaiting("navigateTo", "ftp_list_dir", Null, path, <<>>, 0)]
    /\ UNCHANGED <<ftpId, sessions>>
    /\ UNCHANGED cacheFrame
    /\ UNCHANGED tabVars

\* ftp_list_dir answers with the listing; await invoke("ftp_pwd", { ftpId })
navigateToListed(o, files) ==
    /\ ops[o].kind = "navigateTo" /\ ops[o].pc = "ftp_list_dir"
    /\ ops' = [ops EXCEPT ![o] =
                   Awaiting("navigateTo", "ftp_pwd", Null, <<>>, files, 0)]
    /\ UNCHANGED <<ftpId, cache, sessions>>
    /\ UNCHANGED cacheFrame
    /\ UNCHANGED tabVars

\* ftp_pwd answers with the path the backend is at:
\* set({ currentPath, files, loading: false })
navigateToResolved(o, currentPath) ==
    /\ ops[o].kind = "navigateTo" /\ ops[o].pc = "ftp_pwd"
    /\ cache' = SetListing(cache, currentPath, ops[o].files)
    /\ ops' = [ops EXCEPT ![o] = Ended("returned", 0, currentPath, <<>>)]
    /\ UNCHANGED <<ftpId, sessions>>
    /\ UNCHANGED cacheFrame
    /\ UNCHANGED tabVars

\* ftp_list_dir or ftp_pwd fails: set({ error: String(error), loading: false })
navigateToFailed(o, error) ==
    /\ ops[o].kind = "navigateTo"
    /\ cache' = SetError(cache, error)
    /\ ops' = [ops EXCEPT ![o] = Ended("caught", 0, <<>>, <<>>)]
    /\ UNCHANGED <<ftpId, sessions>>
    /\ UNCHANGED cacheFrame
    /\ UNCHANGED tabVars

\* The refresh() calls createDirectory, deleteItem and rename make once their
\* command has succeeded
RefreshesNone(kind) == 0
Refreshes(kind) == 1

\* refresh up to await invoke("ftp_list_dir", { ftpId, path: currentPath }),
\* called by the operation kind, which has called refresh() refreshes times
refreshFrom(o, kind, refreshes) ==
    /\ IF ftpId = Null
       THEN /\ cache' = cache
            /\ ops' = [ops EXCEPT ![o] = Ended("returned", refreshes, <<>>, <<>>)]
       ELSE /\ cache' = SetLoading(cache)
            /\ ops' = [ops EXCEPT ![o] =
                           Awaiting(kind, "ftp_list_dir", Null, <<>>, <<>>, refreshes)]
    /\ UNCHANGED <<ftpId, sessions>>
    /\ UNCHANGED cacheFrame
    /\ UNCHANGED tabVars

refreshCall(o) ==
    /\ Free(o)
    /\ refreshFrom(o, "refresh", 0)

\* ftp_list_dir answers refresh: set({ files, loading: false })
refreshListed(o, files) ==
    /\ ops[o].kind \in {"refresh"} \cup Mutations /\ ops[o].pc = "ftp_list_dir"
    /\ cache' = SetFiles(cache, files)
    /\ ops' = [ops EXCEPT ![o] = Ended("returned", ops[o].refreshes, <<>>, files)]
    /\ UNCHANGED <<ftpId, sessions>>
    /\ UNCHANGED cacheFrame
    /\ UNCHANGED tabVars

\* ftp_list_dir fails refresh: set({ error: String(error), loading: false })
refreshFailed(o, error) ==
    /\ ops[o].kind \in {"refresh"} \cup Mutations /\ ops[o].pc = "ftp_list_dir"
    /\ cache' = SetError(cache, error)
    /\ ops' = [ops EXCEPT ![o] = Ended("caught", ops[o].refreshes, <<>>, <<>>)]
    /\ UNCHANGED <<ftpId, sessions>>
    /\ UNCHANGED cacheFrame
    /\ UNCHANGED tabVars

\* createDirectory, deleteItem and rename up to their await invoke(...), path
\* the path they send
mutationCall(o, kind, path) ==
    /\ Free(o)
    /\ ops' = [ops EXCEPT ![o] =
                   IF ftpId = Null THEN Ended("returned", 0, <<>>, <<>>)
                   ELSE Awaiting(kind, CommandOf(kind), Null, path, <<>>, 0)]
    /\ UNCHANGED <<ftpId, cache, sessions>>
    /\ UNCHANGED cacheFrame
    /\ UNCHANGED tabVars

\* const fullPath = `${currentPath}/${name}`; await invoke("ftp_mkdir", ...)
createDirectoryCall(o, name) ==
    mutationCall(o, "createDirectory", FullPath(cache.currentPath, name))

\* await invoke("ftp_delete", { ftpId, path, isDir })
deleteItemCall(o, path) == mutationCall(o, "deleteItem", path)

\* await invoke("ftp_rename", { ftpId, fromPath: oldPath, toPath: newPath })
renameCall(o, oldPath) == mutationCall(o, "rename", oldPath)

\* ftp_mkdir, ftp_delete or ftp_rename answers: await get().refresh()
mutationDone(o) ==
    /\ ops[o].kind \in Mutations /\ ops[o].pc = CommandOf(ops[o].kind)
    /\ refreshFrom(o, ops[o].kind, ops[o].refreshes + Refreshes(ops[o].kind))

\* ftp_mkdir, ftp_delete or ftp_rename fails: no try/catch, the operation
\* rejects
mutationFailed(o) ==
    /\ ops[o].kind \in Mutations /\ ops[o].pc = CommandOf(ops[o].kind)
    /\ ops' = [ops EXCEPT ![o] = Ended("rejected", 0, <<>>, <<>>)]
    /\ UNCHANGED <<ftpId, cache, sessions>>
    /\ UNCHANGED cacheFrame
    /\ UNCHANGED tabVars

\* handleNavigateUp of FtpBrowser:
\* navigateTo(currentPath.split("/").slice(0, -1).join("/") || "/")
handleNavigateUp(o) == navigateToCall(o, ParentPath(cache.currentPath))

\* The directory cache under any calls of the operations of the store, at
\* most MaxOps of them running at once, and any answers of the backend.
NextCache ==
    \/ \E o \in OpIds : connectCall(o)
    \/ \E o \in OpIds, sid \in SessionIds : connectOpened(o, sid)
    \/ \E o \in OpIds, p \in Paths : connectPwd(o, p)
    \/ \E o \in OpIds, files \in Listings : connectListed(o, files)
    \/ \E o \in OpIds, error \in Messages : connectFailed(o, error)
    \/ \E o \in OpIds : disconnectCall(o)
    \/ \E o \in OpIds : disconnectDone(o)
    \/ \E o \in OpIds : disconnectFailed(o)
    \/ \E o \in OpIds, p \in Paths : navigateToCall(o, p)
    \/ \E o \in OpIds, files \in Listings : navigateToListed(o, files)
    \/ \E o \in OpIds, p \in Paths : navigateToResolved(o, p)
    \/ \E o \in OpIds, error \in Messages : navigateToFailed(o, error)
    \/ \E o \in OpIds : handleNavigateUp(o)
    \/ \E o \in OpIds : refreshCall(o)
    \/ \E o \in OpIds, files \in Listings : refreshListed(o, files)
    \/ \E o \in OpIds, error \in Messages : refreshFailed(o, error)
    \/ \E o \in OpIds, name \in Names : createDirectoryCall(o, name)
    \/ \E o \in OpIds, name \in Names : deleteItemCall(o, FullPath(cache.currentPath, name))
    \/ \E o \in OpIds, name \in Names : renameCall(o, FullPath(cache.currentPath, name))
    \/ \E o \in OpIds : mutationDone(o)
    \/ \E o \in OpIds : mutationFailed(o)

SpecCache == Init /\ [][NextCache]_vars

\* A caller that starts a call only while fewer than MaxInflight calls run
Admitted == Cardinality(Running) < MaxInflight

\* The directory cache with at most MaxInflight calls running at once.
NextCacheAdmitted ==
    \/ \E o \in OpIds : Admitted /\ connectCall(o)
    \/ \E o \in OpIds, sid \in SessionIds : connectOpened(o, sid)
    \/ \E o \in OpIds, p \in Paths : connectPwd(o, p)
    \/ \E o \in OpIds, files \in Listings : connectListed(o, files)
    \/ \E o \in OpIds, error \in Messages : connectFailed(o, error)
    \/ \E o \in OpIds : Admitted /\ disconnectCall(o)
    \/ \E o \in OpIds : disconnectDone(o)
    \/ \E o \in OpIds : disconnectFailed(o)
    \/ \E o \in OpIds, p \in Paths : Admitted /\ navigateToCall(o, p)
    \/ \E o \in OpIds, files \in Listings : navigateToListed(o, files)
    \/ \E o \in OpIds, p \in Paths : navigateToResolved(o, p)
    \/ \E o \in OpIds, error \in Messages : navigateToFailed(o, error)
    \/ \E o \in OpIds : Admitted /\ handleNavigateUp(o)
    \/ \E o \in OpIds : Admitted /\ refreshCall(o)
    \/ \E o \in OpIds, files \in Listings : refreshListed(o, files)
    \/ \E o \in OpIds, error \in Messages : refreshFailed(o, error)
    \/ \E o \in OpIds, name \in Names : Admitted /\ createDirectoryCall(o, name)
    \/ \E o \in OpIds, name \in Names :
           Admitted /\ deleteItemCall(o, FullPath(cache.currentPath, name))
    \/ \E o \in OpIds, name \in Names :
           Admitted /\ renameCall(o, FullPath(cache.currentPath, name))
    \/ \E o \in OpIds : mutationDone(o)
    \/ \E o \in OpIds : mutationFailed(o)

SpecCacheAdmitted == Init /\ [][NextCacheAdmitted]_vars

\* ---------------------------------------------------------------- the directory cache over a filesystem that does not change

\* navigateTo and refresh of useFtpStore with a backend that answers by its
\* state: ftp_list_dir changes the working directory of the session to the
\* path it is sent and answers with the listing of that directory, ftp_pwd
\* answers with the working directory. trip follows a navigateTo that runs
\* with no other call running and a refresh called next.

\* What navigateTo and refresh leave alone
stableFrame == <<ftpId, sessions, transfers, call, listeners, backend, handled,
                 refreshCalls, thrown, lastT, sessionOf, local, localOps,
                 tree, flow, termRuns, unlistenRef, vncRuns>>

\* connect is called on a store that is not connected and has no call running
stableConnectCall(o) ==
    /\ ftpId = Null
    /\ Running = {}
    /\ connectCall(o)

\* navigateTo up to await invoke("ftp_list_dir", { ftpId, path })
stableNavigateToCall(o, path) ==
    /\ Free(o)
    /\ ftpId # Null
    /\ cache' = SetLoading(cache)
    /\ ops' = [ops EXCEPT ![o] =
                   Awaiting("navigateTo", "ftp_list_dir", Null, path, <<>>, 0)]
    /\ trip' = IF Running = {} THEN Trip("navigating", <<>>, <<>>) ELSE NoTrip
    /\ UNCHANGED cwd
    /\ UNCHANGED stableFrame
    /\ UNCHANGED tabVars

\* ftp_list_dir answers navigateTo; await invoke("ftp_pwd", { ftpId })
stableNavigateToListed(o) ==
    /\ ops[o].kind = "navigateTo" /\ ops[o].pc = "ftp_list_dir"
    /\ cwd' = ops[o].path
    /\ ops' = [ops EXCEPT ![o] =
                   Awaiting("navigateTo", "ftp_pwd", Null, <<>>, ListingOf(ops[o].path), 0)]
    /\ UNCHANGED <<cache, trip>>
    /\ UNCHANGED stableFrame
    /\ UNCHANGED tabVars

\* ftp_pwd answers navigateTo: set({ currentPath, files, loading: false })
stableNavigateToResolved(o) ==
    /\ ops[o].kind = "navigateTo" /\ ops[o].pc = "ftp_pwd"
    /\ cache' = SetListing(cache, cwd, ops[o].files)
    /\ ops' = [ops EXCEPT ![o] = Ended("returned", 0, cwd, <<>>)]
    /\ trip' = IF trip.stage = "navigating"
               THEN Trip("navigated", cache'.currentPath, cache'.files)
               ELSE NoTrip
    /\ UNCHANGED cwd
    /\ UNCHANGED stableFrame
    /\ UNCHANGED tabVars

\* ftp_list_dir or ftp_pwd fails navigateTo:
\* set({ error: String(error), loading: false })
stableNavigateToFailed(o, error) ==
    /\ ops[o].kind = "navigateTo"
    /\ cache' = SetError(cache, error)
    /\ ops' = [ops EXCEPT ![o] = Ended("caught", 0, <<>>, <<>>)]
    /\ trip' = NoTrip
    /\ UNCHANGED cwd
    /\ UNCHANGED stableFrame
    /\ UNCHANGED tabVars

\* refresh up to await invoke("ftp_list_dir", { ftpId, path: currentPath })
stableRefreshCall(o) ==
    /\ Free(o)
    /\ ftpId # Null
    /\ cache' = SetLoading(cache)
    /\ ops' = [ops EXCEPT ![o] =
                   Awaiting("refresh", "ftp_list_dir", Null, RefreshPath(cache), <<>>, 0)]
    /\ trip' = IF trip.stage = "navigated"
               THEN Trip("refreshing", trip.path, trip.files)
               ELSE NoTrip
    /\ UNCHANGED cwd
    /\ UNCHANGED stableFrame
    /\ UNCHANGED tabVars

\* ftp_list_dir answers refresh: set({ files, loading: false })
stableRefreshListed(o) ==
    /\ ops[o].kind = "refresh" /\ ops[o].pc = "ftp_list_dir"
    /\ cwd' = ops[o].path
    /\ cache' = SetFiles(cache, ListingOf(ops[o].path))
    /\ ops' = [ops EXCEPT ![o] = Ended("returned", 0, <<>>, ListingOf(ops[o].path))]
    /\ trip' = IF trip.stage = "refreshing"
               THEN Trip("refreshed", trip.path, trip.files)
               ELSE NoTrip
    /\ UNCHANGED stableFrame
    /\ UNCHANGED tabVars

\* ftp_list_dir fails refresh: set({ error: String(error), loading: false })
stableRefreshFailed(o, error) ==
    /\ ops[o].kind = "refresh" /\ ops[o].pc = "ftp_list_dir"
    /\ cache' = SetError(cache, error)
    /\ ops' = [ops EXCEPT ![o] = Ended("caught", 0, <<>>, <<>>)]
    /\ trip' = NoTrip
    /\ UNCHANGED cwd
    /\ UNCHANGED stableFrame
    /\ UNCHANGED tabVars

\* The store connected once, then any calls of navigateTo and refresh, at
\* most MaxOps of them running at once, over the unchanging filesystem.
NextStable ==
    \/ \E o \in OpIds : stableConnectCall(o)
    \/ \E o \in OpIds, sid \in SessionIds : connectOpened(o, sid)
    \/ \E o \in OpIds : connectPwd(o, cwd)
    \/ \E o \in OpIds : connectListed(o, ListingOf(ops[o].path))
    \/ \E o \in OpIds, error \in Messages : connectFailed(o, error)
    \/ \E o \in OpIds, p \in Paths : stableNavigateToCall(o, p)
    \/ \E o \in OpIds : stableNavigateToListed(o)
    \/ \E o \in OpIds : stableNavigateToResolved(o)
    \/ \E o \in OpIds, error \in Messages : stableNavigateToFailed(o, error)
    \/ \E o \in OpIds : stableRefreshCall(o)
    \/ \E o \in OpIds : stableRefreshListed(o)
    \/ \E o \in OpIds, error \in Messages : stableRefreshFailed(o, error)

SpecStable == Init /\ [][NextStable]_vars

\* ---------------------------------------------------------------- presenting the file list

\* The store has new files after a render: FileTree is given them as its
\* files prop and has not rendered yet (sortedFiles is a constant of the
\* render, there is none)
filesProp(files) ==
    /\ tree.rendered
    /\ tree' = [files |-> files, sortedFiles |-> <<>>, rendered |-> FALSE]
    /\ UNCHANGED <<cwd, trip, flow, termRuns, unlistenRef, vncRuns>>
    /\ UNCHANGED <<cache, ops, sessions, sessionOf, local, localOps>>
    /\ UNCHANGED xferVars
    /\ UNCHANGED tabVars

\* FileTree renders: const sortedFiles = [...files].sort(...)
FileTree ==
    /\ ~tree.rendered
    /\ tree' = [files |-> SortCopy(tree.files),
                sortedFiles |-> SortedFiles(tree.files),
                rendered |-> TRUE]
    /\ UNCHANGED <<cwd, trip, flow, termRuns, unlistenRef, vncRuns>>
    /\ UNCHANGED <<cache, ops, sessions, sessionOf, local, localOps>>
    /\ UNCHANGED xferVars
    /\ UNCHANGED tabVars

\* FileTree under any listings of at most MaxFiles entries.
NextTree ==
    \/ \E files \in FileLists : filesProp(files)
    \/ FileTree

SpecTree == Init /\ [][NextTree]_vars

\* ---------------------------------------------------------------- opening a session

\* The flows that open a session and add its tab: each awaits the connect
\* call of its store inside try, adds the tab after it, and reports a failure
\* in catch.

\* What a flow that adds no tab leaves alone
flowFrame == <<cwd, trip, tree, termRuns, unlistenRef, vncRuns, cache, ops,
               sessions, sessionOf, local, localOps>>

\* The handler up to await connectDirect / connectToSaved / vncConnect /
\* rdpConnect
openCall(kind) ==
    /\ flow.pc # "connecting"
    /\ flow' = Flow(kind, "connecting")
    /\ UNCHANGED flowFrame
    /\ UNCHANGED xferVars
    /\ UNCHANGED tabVars

\* The connect call resolves with the session: addSftpTab (direct, saved),
\* addVncTab or addRdpTab of the tab store
openConnected(id) ==
    /\ flow.pc = "connecting"
    /\ FreshId(id)
    /\ sftpTabs' = IF flow.kind \in {"direct", "saved"}
                   THEN AppendTab(sftpTabs, Tab(id)) ELSE sftpTabs
    /\ vncTabs' = IF flow.kind = "vnc" THEN AppendTab(vncTabs, Tab(id)) ELSE vncTabs
    /\ rdpTabs' = IF flow.kind = "rdp" THEN AppendTab(rdpTabs, Tab(id)) ELSE rdpTabs
    /\ activeTabId' = id
    /\ lastOp' = Op(IF flow.kind = "vnc" THEN "addVncTab"
                    ELSE IF flow.kind = "rdp" THEN "addRdpTab" ELSE "addSftpTab",
                    id, FALSE, FALSE)
    /\ flow' = Flow(flow.kind, "connected")
    /\ UNCHANGED <<tabs, ftpTabs, pendingCreate, pendingClose>>
    /\ UNCHANGED flowFrame
    /\ UNCHANGED xferVars

\* Variant of openFailed in which the connect call of the store swallows the
\* failure and the handler adds a tab with the id it was not given
openFailedAddsTab(error) ==
    /\ flow.pc = "connecting"
    /\ sftpTabs' = IF flow.kind \in {"direct", "saved"}
                   THEN AppendTab(sftpTabs, Tab(Null)) ELSE sftpTabs
    /\ vncTabs' = IF flow.kind = "vnc" THEN AppendTab(vncTabs, Tab(Null)) ELSE vncTabs
    /\ rdpTabs' = IF flow.kind = "rdp" THEN AppendTab(rdpTabs, Tab(Null)) ELSE rdpTabs
    /\ activeTabId' = Null
    /\ flow' = Flow(flow.kind, "failed")
    /\ UNCHANGED <<tabs, ftpTabs, pendingCreate, pendingClose, lastOp>>
    /\ UNCHANGED flowFrame
    /\ UNCHANGED xferVars

\* The connect call rejects (the stores of VNC and RDP set error and throw
\* again): catch (err) { toast.error(...) }, the tab is not added
openFailed(error) ==
    /\ flow.pc = "connecting"
    /\ flow' = Flow(flow.kind, "failed")
    /\ UNCHANGED flowFrame
    /\ UNCHANGED xferVars
    /\ UNCHANGED tabVars

\* The open flows, one at a time, beside the selection of tabs.
NextOpen ==
    \/ \E kind \in FlowKinds : openCall(kind)
    \/ \E id \in Ids : openConnected(id)
    \/ \E error \in Messages : openFailed(error)
    \/ \E id \in Ids : setActiveTab(id)

SpecOpen == Init /\ [][NextOpen]_vars

\* ---------------------------------------------------------------- listener effects

\* The effects that listen to the events of a session. A run of an effect
\* starts setupListener(s) and returns its cleanup; React runs the cleanup
\* when sessionId changes, before the next run, and at unmount; listen()
\* resolves at any later moment, the listener is registered from then.

\* What the effects leave alone
effectFrame == <<cwd, trip, tree, flow, cache, ops, sessions, sessionOf, local, localOps>>

\* r is the next run: the runs before it have been cleaned up
NextRun(r, runs) == r = Len(runs) + 1 /\ \A q \in RunsOf(runs) : runs[q].cleaned

\* useTerminalChannel, the output effect runs: setupListener() awaits listen()
termEffect(r) ==
    /\ NextRun(r, termRuns)
    /\ termRuns' = Append(termRuns, TermRun("listen", FALSE))
    /\ UNCHANGED <<unlistenRef, vncRuns>>
    /\ UNCHANGED effectFrame
    /\ UNCHANGED xferVars
    /\ UNCHANGED tabVars

\* listen() of run r resolves: unlistenRef.current = its unlisten function
termListened(r) ==
    /\ r \in RunsOf(termRuns)
    /\ termRuns[r].pc = "listen"
    /\ termRuns' = [termRuns EXCEPT ![r].pc = "registered"]
    /\ unlistenRef' = r
    /\ UNCHANGED vncRuns
    /\ UNCHANGED effectFrame
    /\ UNCHANGED xferVars
    /\ UNCHANGED tabVars

\* The cleanup of run r:
\* if (unlistenRef.current) { unlistenRef.current(); unlistenRef.current = null }
termCleanup(r) ==
    /\ r \in RunsOf(termRuns)
    /\ ~termRuns[r].cleaned
    /\ termRuns' = [q \in RunsOf(termRuns) |->
                       TermRun(IF q = unlistenRef THEN Unlisten(termRuns[q].pc)
                               ELSE termRuns[q].pc,
                               termRuns[q].cleaned \/ q = r)]
    /\ unlistenRef' = Null
    /\ UNCHANGED vncRuns
    /\ UNCHANGED effectFrame
    /\ UNCHANGED xferVars
    /\ UNCHANGED tabVars

\* VncViewer, the frame effect runs: setupListeners() awaits the first listen()
vncEffect(r) ==
    /\ NextRun(r, vncRuns)
    /\ vncRuns' = Append(vncRuns, VncRun("listenFrame", "none", "none", FALSE))
    /\ UNCHANGED <<termRuns, unlistenRef>>
    /\ UNCHANGED effectFrame
    /\ UNCHANGED xferVars
    /\ UNCHANGED tabVars

\* unlistenFrame = await listen(`vnc-frame-${sessionId}`, ...), then the
\* second listen() is awaited
vncFrameListened(r) ==
    /\ r \in RunsOf(vncRuns)
    /\ vncRuns[r].pc = "listenFrame"
    /\ vncRuns' = [vncRuns EXCEPT ![r].pc = "listenError", ![r].frame = "registered"]
    /\ UNCHANGED <<termRuns, unlistenRef>>
    /\ UNCHANGED effectFrame
    /\ UNCHANGED xferVars
    /\ UNCHANGED tabVars

\* unlistenError = await listen(`vnc-error-${sessionId}`, ...)
vncErrorListened(r) ==
    /\ r \in RunsOf(vncRuns)
    /\ vncRuns[r].pc = "listenError"
    /\ vncRuns' = [vncRuns EXCEPT ![r].pc = "done", ![r].error = "registered"]
    /\ UNCHANGED <<termRuns, unlistenRef>>
    /\ UNCHANGED effectFrame
    /\ UNCHANGED xferVars
    /\ UNCHANGED tabVars

\* The cleanup of run r, on the unlistenFrame and unlistenError of that run:
\* if (unlistenFrame) unlistenFrame(); if (unlistenError) unlistenError()
vncCleanup(r) ==
    /\ r \in RunsOf(vncRuns)
    /\ ~vncRuns[r].cleaned
    /\ vncRuns' = [vncRuns EXCEPT ![r] =
                       VncRun(vncRuns[r].pc, Unlisten(vncRuns[r].frame),
                              Unlisten(vncRuns[r].error), TRUE)]
    /\ UNCHANGED <<termRuns, unlistenRef>>
    /\ UNCHANGED effectFrame
    /\ UNCHANGED xferVars
    /\ UNCHANGED tabVars

\* A terminal and a VNC viewer through mounts, changes of sessionId and
\* unmounts, listen() resolving whenever it does.
NextEffects ==
    \/ \E r \in Runs : termEffect(r)
    \/ \E r \in Runs : termListened(r)
    \/ \E r \in Runs : termCleanup(r)
    \/ \E r \in Runs : vncEffect(r)
    \/ \E r \in Runs : vncFrameListened(r)
    \/ \E r \in Runs : vncErrorListened(r)
    \/ \E r \in Runs : vncCleanup(r)

SpecEffects == Init /\ [][NextEffects]_vars

\* ---------------------------------------------------------------- the workspace and its FTP tabs

\* The handlers of the workspace that open, browse and close FTP tabs, each
\* from its call to its return with every command of the backend succeeding.
\* Every FtpBrowser, whichever tab renders it, reads and calls the one
\* useFtpStore.

\* The directory cache the browser of an FTP tab shows: <FtpBrowser /> is given
\* no tab and calls useFtpStore()
CacheOf(tabId) ==
    [ftpId |-> ftpId, currentPath |-> cache.currentPath, files |-> cache.files,
     loading |-> cache.loading, error |-> cache.error]

\* The session disconnect closes: const { ftpId } = get()
SessionOfTab(tabId) == sessionOf[tabId]
SessionToClose(tabId) == ftpId

\* handleConnect of ConnectionManager for an FTP profile: await ftpConnect(...),
\* the backend opening the session sid, then addFtpTab with a new tab id
handleConnect(id, sid, currentPath, files) ==
    /\ FreshId(id)
    /\ sessions[sid] = "none"
    /\ \A j \in SessionIds : j < sid => sessions[j] # "none"
    /\ sessions' = [sessions EXCEPT ![sid] = "open"]
    /\ ftpId' = sid
    /\ cache' = SetListing(SetLoading(cache), currentPath, files)
    /\ sessionOf' = [sessionOf EXCEPT ![id] = sid]
    /\ ftpTabs' = AppendTab(ftpTabs, Tab(id))
    /\ activeTabId' = id
    /\ lastOp' = Op("addFtpTab", id, FALSE, FALSE)
    /\ UNCHANGED <<tabs, sftpTabs, vncTabs, rdpTabs, pendingCreate, pendingClose>>
    /\ UNCHANGED <<ops, local, localOps, viewVars>>
    /\ UNCHANGED trackVars

\* handleNavigate of the FtpBrowser of the active tab: navigateTo(path), the
\* backend answering with the listing and the path
handleNavigate(currentPath, files) ==
    /\ activeTabId \in IdsOf(ftpTabs)
    /\ ftpId # Null
    /\ cache' = SetListing(SetLoading(cache), currentPath, files)
    /\ lastOp' = Op("navigateTo", activeTabId, FALSE, FALSE)
    /\ UNCHANGED <<tabs, ftpTabs, sftpTabs, vncTabs, rdpTabs, activeTabId,
                   pendingCreate, pendingClose>>
    /\ UNCHANGED <<ftpId, ops, sessions, sessionOf, local, localOps, viewVars>>
    /\ UNCHANGED trackVars

\* handleCloseTab of TerminalTabs for an FTP tab: await ftpDisconnect(), then
\* closeFtpTab(tabId)
handleCloseTab(tabId) ==
    /\ tabId \in IdsOf(ftpTabs)
    /\ sessions' = IF SessionToClose(tabId) = Null THEN sessions
                   ELSE [sessions EXCEPT ![SessionToClose(tabId)] = "closed"]
    /\ ftpId' = Null
    /\ cache' = SetDisconnected(cache)
    /\ ftpTabs' = FilterOut(ftpTabs, tabId)
    /\ activeTabId' = CloseFtpActive(tabId)
    /\ lastOp' = Op("closeFtpTab", tabId, activeTabId = tabId, TRUE)
    /\ UNCHANGED <<tabs, sftpTabs, vncTabs, rdpTabs, pendingCreate, pendingClose>>
    /\ UNCHANGED <<ops, sessionOf, local, localOps, viewVars>>
    /\ UNCHANGED trackVars

\* The workspace under any sequence of these handlers and of tab clicks.
NextWorkspace ==
    \/ \E id \in Ids, sid \in SessionIds, p \in Paths, files \in Listings :
           handleConnect(id, sid, p, files)
    \/ \E p \in Paths, files \in Listings : handleNavigate(p, files)
    \/ \E id \in Ids : handleCloseTab(id)
    \/ \E id \in Ids : setActiveTab(id)

SpecWorkspace == Init /\ [][NextWorkspace]_vars

\* ---------------------------------------------------------------- the local directory

\* The operations of useLocalStore on currentPath, files, loading and error:
\* navigateTo, and navigateUp and refresh, which call it.

localFrame == <<ftpId, transfers, call, listeners, backend, handled, refreshCalls,
                thrown, lastT, cache, ops, sessions, sessionOf, viewVars>>

\* navigateTo up to await invoke("local_list_dir", { path }), called by from
localNavigateToFrom(o, from, path) ==
    /\ local' = SetLocalLoading(local)
    /\ localOps' = [localOps EXCEPT ![o] = LocalAwaiting(from, path)]
    /\ UNCHANGED localFrame
    /\ UNCHANGED tabVars

localNavigateTo(o, path) ==
    /\ LocalFree(o)
    /\ localNavigateToFrom(o, "navigateTo", path)

\* navigateUp: if (parts.length <= 1) return; await get().navigateTo(parentPath)
localNavigateUp(o) ==
    /\ LocalFree(o)
    /\ IF AtRoot(local.currentPath)
       THEN UNCHANGED vars
       ELSE localNavigateToFrom(o, "navigateUp", ParentPath(local.currentPath))

\* refresh: await get().navigateTo(currentPath)
localRefresh(o) ==
    /\ LocalFree(o)
    /\ localNavigateToFrom(o, "refresh", local.currentPath)

\* local_list_dir answers: set({ currentPath: path, files, loading: false })
localListed(o, files) ==
    /\ localOps[o].pc = "local_list_dir"
    /\ local' = [local EXCEPT !.currentPath = localOps[o].path, !.files = files,
                              !.loading = FALSE]
    /\ localOps' = [localOps EXCEPT ![o] = LocalEnded]
    /\ UNCHANGED localFrame
    /\ UNCHANGED tabVars

\* local_list_dir fails: set({ error: String(error), loading: false })
localFailed(o, error) ==
    /\ localOps[o].pc = "local_list_dir"
    /\ local' = [local EXCEPT !.error = error, !.loading = FALSE]
    /\ localOps' = [localOps EXCEPT ![o] = LocalEnded]
    /\ UNCHANGED localFrame
    /\ UNCHANGED tabVars

\* The local directory under any calls of the three operations, at most
\* MaxOps of them running at once, and any answers of the backend.
NextLocal ==
    \/ \E o \in OpIds, p \in Paths : localNavigateTo(o, p)
    \/ \E o \in OpIds : localNavigateUp(o)
    \/ \E o \in OpIds : localRefresh(o)
    \/ \E o \in OpIds, files \in Listings : localListed(o, files)
    \/ \E o \in OpIds, error \in Messages : localFailed(o, error)

SpecLocal == Init /\ [][NextLocal]_vars

\* ---------------------------------------------------------------- properties

\* The five kinds in the order Terminal, Ftp, Sftp, Vnc, Rdp; colls[k] is the
\* collection of kind k.
Kinds == 1..5
CloseOps == <<"closeTerminal", "closeFtpTab", "closeSftpTab", "closeVncTab", "closeRdpTab">>
AddOps == <<"createTerminal", "addFtpTab", "addSftpTab", "addVncTab", "addRdpTab">>

\* 1-based position of the record with id i in s (i is in s).
PosOf(s, i) == CHOOSE p \in 1..Len(s) : s[p].id = i

\* s without its p-th record.
WithoutPos(s, p) == [j \in 1..(Len(s) - 1) |-> IF j < p THEN s[j] ELSE s[j + 1]]

\* The number of records of id i in the list s.
RecordsOf(s, i) == Cardinality({j \in 1..Len(s) : s[j].id = i})

\* Number of records, over the five collections, whose id is i.
Occurrences(i) ==
    RecordsOf(tabs, i) + RecordsOf(ftpTabs, i) + RecordsOf(sftpTabs, i)
        + RecordsOf(vncTabs, i) + RecordsOf(rdpTabs, i)

\* The kinds other than k whose collection is not empty.
OtherNonEmpty(k) == {j \in Kinds \ {k} : Len(colls[j]) > 0}

\* The first of them in the order Terminal, Ftp, Sftp, Vnc, Rdp.
FirstOther(k) == CHOOSE j \in OtherNonEmpty(k) : \A h \in OtherNonEmpty(k) : j <= h

\* The step is the close of kind k, of a tab of k's collection that is active.
ClosesActive(k) ==
    /\ lastOp'.op = CloseOps[k]
    /\ lastOp'.id = activeTabId
    /\ activeTabId \in IdsOf(colls[k])

\* C1: in every reachable state activeTabId is null or the id of exactly one
\* record among the five collections.
C1_ActiveIdentifiesOneRecord ==
    activeTabId = Null \/ Occurrences(activeTabId) = 1

\* C1 as amended: activeTabId is null or the id of exactly one record in the
\* initial state, and every operation other than a setActiveTab with the id
\* of no open tab keeps it so.
C1_PreservedUnlessSetToUnknownId ==
    [][(/\ C1_ActiveIdentifiesOneRecord
        /\ ~(lastOp'.op = "setActiveTab" /\ lastOp'.id \notin OpenIds))
       => C1_ActiveIdentifiesOneRecord']_vars

\* The active terminal tab has been closed and another open tab is active.
C1_Witness ==
    /\ lastOp.op = "closeTerminal"
    /\ lastOp.wasActive /\ lastOp.found
    /\ activeTabId # Null
    /\ Occurrences(activeTabId) = 1

\* C2: activeTabId is null only if all five collections are empty.
C2_NullOnlyWhenEmpty ==
    activeTabId = Null => NumOpen = 0

\* C3: for every kind K, closing the active tab when it is the last tab of K
\* makes the first record of the first non-empty other collection, in the
\* order Terminal, Ftp, Sftp, Vnc, Rdp, the active tab.
C3_CrossKindFallback ==
    [][\A k \in Kinds :
          (ClosesActive(k) /\ Len(colls[k]) = 1 /\ OtherNonEmpty(k) # {})
          => activeTabId' = colls[FirstOther(k)][1].id]_vars

\* The step closes the active tab of kind k while other tabs of k remain, and
\* the record at index min(closedIndex, len-1) of k's collection after
\* removal becomes active.
SlidesIn(k) ==
    (ClosesActive(k) /\ Len(colls[k]) > 1)
    => LET p == PosOf(colls[k], activeTabId)
           after == colls[k]'
       IN activeTabId' = after[IF p <= Len(after) THEN p ELSE Len(after)].id

\* With tabs [A(term), B(ftp), C(ftp)] and B active, closing B makes C active.
SlidesInExample ==
    (/\ Len(tabs) = 1 /\ Len(ftpTabs) = 2 /\ NumOpen = 3
     /\ activeTabId = ftpTabs[1].id
     /\ lastOp'.op = "closeFtpTab" /\ lastOp'.id = activeTabId)
    => activeTabId' = ftpTabs[2].id

\* C4: for every kind K, closing the active tab when other tabs of K remain
\* makes the record at index min(closedIndex, len-1) of K's collection after
\* removal the active tab; with tabs [A(term), B(ftp), C(ftp)] and B active,
\* closing B makes C active.
C4_SameKindSlideIn ==
    [][(\A k \in Kinds : SlidesIn(k)) /\ SlidesInExample]_vars

\* A close of an active tab of a collection of at least two tabs has run and
\* the active tab is now another tab of that collection.
C4_Witness ==
    \E k \in Kinds :
        /\ lastOp.op = CloseOps[k]
        /\ lastOp.wasActive /\ lastOp.found
        /\ Len(colls[k]) >= 2
        /\ activeTabId = colls[k][Len(colls[k])].id

\* C5: for each kind, closing the active tab when it is the only tab open
\* sets activeTabId to null.
C5_LastTabClosedGivesNull ==
    [][\A k \in Kinds :
          (ClosesActive(k) /\ NumOpen = 1) => (NumOpen' = 0 /\ activeTabId' = Null)]_vars

\* The only open tab, active, has been closed.
C5_Witness ==
    /\ lastOp.op = "closeRdpTab"
    /\ lastOp.wasActive /\ lastOp.found
    /\ NumOpen = 0
    /\ activeTabId = Null

\* C6: with one terminal tab T and one Sftp tab S open and S active,
\* closeSftpTab(S) leaves the terminal collection unchanged and makes T active.
C6_SftpFallsBackToTerminal ==
    [][(/\ Len(tabs) = 1 /\ Len(sftpTabs) = 1 /\ NumOpen = 2
        /\ activeTabId = sftpTabs[1].id
        /\ lastOp'.op = "closeSftpTab" /\ lastOp'.id = activeTabId)
       => (tabs' = tabs /\ activeTabId' = tabs[1].id)]_vars

\* closeSftpTab has closed the active Sftp tab and the one terminal tab left
\* is active.
C6_Witness ==
    /\ lastOp.op = "closeSftpTab"
    /\ lastOp.wasActive /\ lastOp.found
    /\ Len(tabs) = 1 /\ NumOpen = 1
    /\ activeTabId = tabs[1].id

\* C7: adding a tab of a kind appends the new record to that kind's
\* collection, leaves the other four collections unchanged and makes the new
\* record the active tab.
C7_AddAppendsAndActivates ==
    [][\A k \in Kinds :
          lastOp'.op = AddOps[k]
          => /\ colls[k]' = colls[k] \o <<[id |-> lastOp'.id]>>
             /\ \A j \in Kinds \ {k} : colls[j]' = colls[j]
             /\ activeTabId' = lastOp'.id]_vars

\* A tab has been added to a collection that was not empty.
C7_Witness ==
    \E k \in Kinds :
        /\ lastOp.op = AddOps[k]
        /\ Len(colls[k]) >= 2
        /\ colls[k][Len(colls[k])].id = lastOp.id
        /\ activeTabId = lastOp.id

\* C8: closing a tab of kind K whose id is in K's collection removes exactly
\* that record, keeps the order of the others and leaves the other four
\* collections unchanged.
C8_CloseRemovesOneRecord ==
    [][\A k \in Kinds :
          (lastOp'.op = CloseOps[k] /\ lastOp'.id \in IdsOf(colls[k]))
          => /\ colls[k]' = WithoutPos(colls[k], PosOf(colls[k], lastOp'.id))
             /\ \A j \in Kinds \ {k} : colls[j]' = colls[j]]_vars

\* A close has removed a tab from a collection in which tabs remain, while
\* another collection holds tabs too.
C8_Witness ==
    \E k \in Kinds :
        /\ lastOp.op = CloseOps[k]
        /\ lastOp.found
        /\ Len(colls[k]) >= 1
        /\ lastOp.id \notin IdsOf(colls[k])
        /\ NumOpen > Len(colls[k])

\* C9: closing a tab whose id differs from activeTabId leaves activeTabId
\* unchanged, for every kind.
C9_CloseOfInactiveKeepsActive ==
    [][\A k \in Kinds :
          (lastOp'.op = CloseOps[k] /\ lastOp'.id # activeTabId)
          => activeTabId' = activeTabId]_vars

\* A tab that was not the active one has been closed and an open tab is active.
C9_Witness ==
    \E k \in Kinds :
        /\ lastOp.op = CloseOps[k]
        /\ lastOp.found /\ ~lastOp.wasActive
        /\ activeTabId \in OpenIds

\* C10: setActiveTab(id) sets activeTabId to id, whether or not a tab with
\* that id exists, and leaves the five collections unchanged.
C10_SetActiveUnconditional ==
    [][lastOp'.op = "setActiveTab"
       => (activeTabId' = lastOp'.id /\ colls' = colls)]_vars

\* setActiveTab has run with an id that no open tab has.
C10_Witness ==
    /\ lastOp.op = "setActiveTab"
    /\ lastOp.id \notin OpenIds
    /\ NumOpen > 0
    /\ activeTabId = lastOp.id

\* Completed, Cancelled and Failed are the terminal statuses.
IsTerminal(t) == t.status.tag \in {"Completed", "Cancelled", "Failed"}

\* Transfer i has a record, of terminal status and not among the active
\* transfers.
Settled(i) == i \in TransferIds /\ IsTerminal(TransferOf(i)) /\ ~IsActive(TransferOf(i))

\* C11: once the completion or failure notification of a transfer has been
\* handled, none of its three listeners is registered, and once the start
\* call has returned as well each of the three has been unsubscribed
\* exactly once, whatever the interleaving of the notifications with the
\* three subscription steps.
C11_ListenersReleasedOnce ==
    \A i \in CallIds :
        handled[i] # "none" =>
            /\ \A c \in Channels : listeners[i][c] # Registered
            /\ call[i].pc = "done" => \A c \in Channels : listeners[i][c] = 1

\* C12: under fair scheduling, once the engine has emitted the terminal
\* notification of a transfer (which it does after the start request has
\* returned the record), the record eventually has a terminal status and
\* from then on is not among the active transfers.
C12_EventuallyTerminal ==
    \A i \in CallIds :
        [](backend[i].state \in {"completed", "failed"}
               => <>[](Settled(i) /\ TransferOf(i).status # Cancelled))

\* C13: handling a progress notification (transferred, total) for transfer
\* X sets X's transferred_bytes to transferred and its total_bytes to total,
\* and X's status becomes InProgress if it was Pending.
C13_ProgressSetsBytesAndStatus ==
    [][\A i \in TransferIds :
          (lastT'.op = "updateTransferProgress" /\ lastT'.id = i) =>
              /\ TransferOf(i)'.transferred_bytes = lastT'.transferred
              /\ TransferOf(i)'.total_bytes = lastT'.total
              /\ TransferOf(i)'.status =
                     IF TransferOf(i).status = Pending THEN InProgress
                     ELSE TransferOf(i).status]_vars

\* The handler of a terminal notification of transfer i runs in this step.
Handles(i, what) == handled[i] = "none" /\ handled'[i] = what

\* C14: handling a completion notification for transfer X sets X's status
\* to Completed; handling a failure notification with reason r sets it to
\* Failed(r), and the failure is recorded in the record only: the start call
\* is where it was, no other field or record of the store changes.
C14_TerminalNotificationSetsStatus ==
    [][\A i \in CallIds :
          /\ Handles(i, "complete") => TransferOf(i)'.status = Completed
          /\ Handles(i, "error") =>
                 /\ TransferOf(i)'.status = Failed(backend'[i].reason)
                 /\ transfers' = [j \in 1..Len(transfers) |->
                                    IF transfers[j].id = i
                                    THEN [transfers[j] EXCEPT !.status = Failed(backend'[i].reason)]
                                    ELSE transfers[j]]
                 /\ UNCHANGED <<ftpId, call, refreshCalls>>]_vars

\* A failure notification has been handled and its reason is in the record.
C14_Witness ==
    \E i \in CallIds :
        /\ handled[i] = "error"
        /\ backend[i].reason = "denied"
        /\ TransferOf(i).status = Failed("denied")
        /\ call[i].pc = "done"

\* C15: once a transfer's status is terminal (Completed, Cancelled or
\* Failed) it never changes, whatever completion or failure is handled for
\* it afterwards.
C15_TerminalStatusIsFinal ==
    [][\A i \in TransferIds :
          IsTerminal(TransferOf(i)) => TransferOf(i)'.status = TransferOf(i).status]_vars

\* The place of a status in the order Pending, InProgress, terminal.
Rank(st) == IF st = Pending THEN 0 ELSE IF st = InProgress THEN 1 ELSE 2

\* C16: the distinct status values a record takes over time form a prefix
\* of Pending, InProgress, terminal: a record starts Pending, and its status
\* changes only from Pending to InProgress and from InProgress to a terminal
\* value (notifications come as progress*, then one terminal notification).
C16_StatusSequenceIsPrefix ==
    [][\A i \in TransferIds' :
          /\ i \notin TransferIds => TransferOf(i)'.status = Pending
          /\ (i \in TransferIds /\ TransferOf(i)'.status # TransferOf(i).status) =>
                 \/ TransferOf(i).status = Pending /\ TransferOf(i)'.status = InProgress
                 \/ TransferOf(i).status = InProgress /\ Rank(TransferOf(i)'.status) = 2]_vars

\* C16 as it holds: the status of a record only moves forward in the order
\* Pending, InProgress, terminal, possibly skipping InProgress, and it is
\* terminal once the terminal notification has been handled.
C16_StatusOnlyAdvances ==
    [][\A i \in TransferIds' :
          /\ (i \in TransferIds /\ TransferOf(i)'.status # TransferOf(i).status) =>
                 Rank(TransferOf(i).status) < Rank(TransferOf(i)'.status)
          /\ handled'[i] # "none" => Rank(TransferOf(i)'.status) = 2]_vars

\* A progress notification and then the completion have been handled.
C16_Witness ==
    \E i \in CallIds :
        /\ handled[i] = "complete"
        /\ TransferOf(i).transferred_bytes > 0
        /\ TransferOf(i).status = Completed

NotificationOps == {"updateTransferProgress", "completeTransfer", "failTransfer"}

\* C19: a progress, completion or failure notification for transfer X
\* changes the record of X only: the other records are unchanged, and so are
\* the number and the order of the records.
C19_NotificationChangesOnlyItsRecord ==
    [][lastT'.op \in NotificationOps =>
          /\ Len(transfers') = Len(transfers)
          /\ \A j \in 1..Len(transfers) :
                 /\ transfers'[j].id = transfers[j].id
                 /\ transfers[j].id # lastT'.id => transfers'[j] = transfers[j]]_vars

\* A failure has just been recorded in the first of two records, the
\* second one, completed before, being as it was.
C19_Witness ==
    /\ Len(transfers) = 2
    /\ lastT.op = "failTransfer"
    /\ lastT.id = transfers[1].id
    /\ transfers[1].status = Failed("denied")
    /\ transfers[2].status = Completed
    /\ transfers[2].transferred_bytes = 1

\* C20: the transferred_bytes of a record never decreases while its status
\* is Pending or InProgress, whatever progress notifications are handled
\* for its id.
C20_TransferredNeverDecreases ==
    [][\A i \in TransferIds :
          IsActive(TransferOf(i)) =>
              TransferOf(i)'.transferred_bytes >= TransferOf(i).transferred_bytes]_vars

\* ---------------------------------------------------------------- properties of the directory cache

\* The call o has just run the step that started it as an operation of kind
Started(o, kind) == ops[o].pc = "idle" /\ ops'[o].kind = kind

\* The call o of an operation of kind has just ended with result
Finished(o, kind, result) == ops[o].kind = kind /\ ops'[o].result = result

\* C21: navigateTo on a connected store first sets loading to true and error
\* to null and nothing else; it changes nothing while it awaits the listing and
\* the path; when both have arrived, one update sets currentPath to the path
\* the backend answered, files to the listing it answered, loading to false.
C21_NavigateUpdates ==
    [][\A o \in OpIds :
          /\ Started(o, "navigateTo") =>
                 /\ ftpId # Null
                 /\ cache' = [currentPath |-> cache.currentPath, files |-> cache.files,
                              loading |-> TRUE, error |-> NoError]
          /\ (ops[o].pc = "ftp_list_dir" /\ ops'[o].pc = "ftp_pwd") =>
                 cache' = cache
          /\ Finished(o, "navigateTo", "returned") =>
                 cache' = [currentPath |-> ops'[o].path, files |-> ops[o].files,
                           loading |-> FALSE, error |-> cache.error]]_vars

\* A navigateTo has succeeded: the store shows the path "/a" and the listing
\* the backend answered, and is not loading.
C21_Witness ==
    \E o \in OpIds :
        /\ ops[o].result = "returned" /\ ops[o].path = <<Slash, "a">>
        /\ cache.currentPath = <<Slash, "a">>
        /\ cache.files = <<"a">>
        /\ ~cache.loading

\* C22: when a command of navigateTo (ftp_list_dir or ftp_pwd) or of refresh
\* fails, the update of the catch block sets error to the message and loading
\* to false and leaves currentPath and files alone, and no earlier step of the
\* call has changed them either.
C22_FailureKeepsPathAndFiles ==
    [][\A o \in OpIds :
          /\ (ops[o].kind \in {"navigateTo", "refresh"} /\ ops'[o].result = "caught") =>
                 /\ cache'.error \in Messages
                 /\ cache' = [currentPath |-> cache.currentPath, files |-> cache.files,
                              loading |-> FALSE, error |-> cache'.error]
          /\ (ops'[o] # ops[o] /\ ops'[o].kind \in {"navigateTo", "refresh"}) =>
                 /\ cache'.currentPath = cache.currentPath
                 /\ cache'.files = cache.files]_vars

\* A navigateTo or a refresh has failed in a directory that is not the
\* initial one: the message is in error, the path and the listing are still
\* there.
C22_Witness ==
    \E o \in OpIds :
        /\ ops[o].result = "caught"
        /\ cache.error = "denied"
        /\ ~cache.loading
        /\ cache.currentPath = <<Slash, "a">>
        /\ cache.files = <<"a">>

\* The calls that await an answer for navigateTo or for refresh (called by
\* the browser, or by createDirectory, deleteItem and rename)
Listing ==
    {o \in OpIds : \/ ops[o].kind \in {"navigateTo", "refresh"}
                   \/ ops[o].kind \in Mutations /\ ops[o].pc = "ftp_list_dir"}

\* C23: while loading is true at most one navigateTo or refresh awaits its
\* answer.
C23_OneListingInFlight == cache.loading => Cardinality(Listing) <= 1

\* C24: once disconnect has reset the store (ftpId null, the path "/", no
\* files), the answer to a navigateTo or a refresh that was called before
\* leaves ftpId, currentPath and files at these values. (Without an ftpId both
\* return before their request, so one that awaits an answer while ftpId is
\* null was called before the disconnect.)
C24_LateAnswerDiscarded ==
    [][\A o \in OpIds :
          (/\ ftpId = Null /\ cache.currentPath = Root /\ cache.files = <<>>
           /\ o \in Listing
           /\ ops'[o] # ops[o])
          => (/\ ftpId' = Null
              /\ cache'.currentPath = Root
              /\ cache'.files = <<>>)]_vars

\* C25: with two FTP tabs open, an operation performed for one of them (the
\* connect of a new tab, a navigation in the active tab, the closing of a tab)
\* leaves the cache of every other open tab as it was.
C25_OtherTabsCacheUnchanged ==
    [][\A tabId \in Ids :
          (/\ tabId \in IdsOf(ftpTabs) /\ tabId \in IdsOf(ftpTabs')
           /\ lastOp'.op \in {"addFtpTab", "navigateTo", "closeFtpTab"}
           /\ lastOp'.id # tabId)
          => CacheOf(tabId)' = CacheOf(tabId)]_vars

\* C26: closing an FTP tab through handleCloseTab closes the session that was
\* connected for that tab and changes no other session of the backend, so
\* that no session is open once the last tab has been closed.
C26_CloseReleasesOwnSession ==
    [][\A tabId \in Ids :
          (tabId \in IdsOf(ftpTabs) /\ tabId \notin IdsOf(ftpTabs'))
          => /\ sessions'[SessionOfTab(tabId)] = "closed"
             /\ \A sid \in SessionIds :
                    sid # SessionOfTab(tabId) => sessions'[sid] = sessions[sid]
             /\ ftpTabs' = <<>> => \A sid \in SessionIds : sessions'[sid] # "open"]_vars

\* The call o awaits the command of createDirectory, deleteItem or rename
AwaitsMutation(o) == ops[o].kind \in Mutations /\ ops[o].pc = CommandOf(ops[o].kind)

\* C27: when ftp_mkdir, ftp_delete or ftp_rename fails (the call ends without
\* having called refresh), the message is in error, the call has not rejected,
\* and currentPath and files are unchanged.
C27_MutationFailureRecorded ==
    [][\A o \in OpIds :
          (AwaitsMutation(o) /\ ops'[o].pc = "idle" /\ ops'[o].refreshes = 0)
          => /\ cache'.error \in Messages
             /\ ops'[o].result # "rejected"
             /\ cache'.currentPath = cache.currentPath
             /\ cache'.files = cache.files]_vars

\* C28: createDirectory sends ftp_mkdir for the currentPath of the moment of
\* the call, "/" and the name; createDirectory, deleteItem and rename have
\* called refresh() no time while their command is awaited and exactly once
\* when it has succeeded, after which they await the listing of that refresh
\* (or have returned, when the store was disconnected meanwhile).
C28_MutationThenOneRefresh ==
    [][\A o \in OpIds :
          /\ Started(o, "createDirectory") =>
                 /\ ops'[o].pc = "ftp_mkdir"
                 /\ \E name \in Names :
                        ops'[o].path = cache.currentPath \o <<"/">> \o name
          /\ AwaitsMutation(o)' => ops'[o].refreshes = 0
          /\ (AwaitsMutation(o) /\ ops'[o] # ops[o] /\ ops'[o].result # "rejected") =>
                 /\ ops'[o].refreshes = 1
                 /\ IF ftpId = Null
                    THEN ops'[o].result = "returned" /\ cache' = cache
                    ELSE ops'[o].pc = "ftp_list_dir" /\ cache'.loading
          /\ (ops[o].kind \in Mutations /\ ops[o].pc = "ftp_list_dir") =>
                 ops'[o].refreshes = 1]_vars

\* createDirectory has succeeded in "/a" and awaits the listing of its one
\* refresh.
C28_Witness ==
    \E o \in OpIds :
        /\ ops[o].kind = "createDirectory" /\ ops[o].pc = "ftp_list_dir"
        /\ ops[o].refreshes = 1
        /\ cache.currentPath = <<Slash, "a">>
        /\ cache.loading

\* C29: navigateUp called while currentPath is "/" sends no listing request
\* and leaves currentPath, files, loading and error as they are.
C29_NavigateUpAtRootIsNoOp ==
    [][\A o \in OpIds :
          (local.currentPath = Root /\ localOps[o].pc = "idle"
           /\ localOps'[o].from = "navigateUp")
          => (localOps'[o].pc # "local_list_dir" /\ local' = local)]_vars

\* C30: the update made when the answer to a refresh arrives, a listing or a
\* failure, leaves currentPath as it was just before.
C30_RefreshKeepsPath ==
    [][\A o \in OpIds :
          (localOps[o].from = "refresh" /\ localOps'[o].pc = "idle")
          => local'.currentPath = local.currentPath]_vars

\* C33: when navigateTo has resolved and refresh is called next and
\* resolves, with no other call between the two and the filesystem as it
\* was, files holds the same entries as right after navigateTo and
\* currentPath is the same.
C33_NavigateThenRefresh ==
    trip.stage = "refreshed"
        => /\ NamesIn(cache.files) = NamesIn(trip.files)
           /\ cache.currentPath = trip.path

\* navigateTo to "/" and then refresh have resolved, the directory has an
\* entry.
C33_Witness ==
    /\ trip.stage = "refreshed"
    /\ cache.files # <<>>
    /\ cache.files = trip.files

\* The call o is not running and the last call of its slot was a navigateTo
\* that resolved
Navigated(o) == ops[o].pc = "idle" /\ ops[o].result = "returned" /\ ops[o].path # <<>>

\* C35: when a navigateTo resolves after another navigateTo has, currentPath
\* and files are the path and the listing the backend answered the one that
\* resolves now, whichever of the two was called first.
C35_LastResponseWins ==
    [][\A o \in OpIds :
          (/\ Finished(o, "navigateTo", "returned")
           /\ \E j \in OpIds \ {o} : Navigated(j))
          => /\ cache'.currentPath = ops'[o].path
             /\ cache'.files = ops[o].files]_vars

\* Two calls of navigateTo that ran at once have both resolved, the second to
\* start being the last to resolve: the store holds its path, not the other's.
C35_Witness ==
    /\ Navigated(1) /\ Navigated(2)
    /\ ops[1].path # ops[2].path
    /\ cache.currentPath = ops[2].path
    /\ cache.files = ListingOf(ops[2].path)
    /\ ~cache.loading

\* C36: on a connected store with no navigateTo and no refresh awaiting an
\* answer, files is the listing of the directory currentPath names.
C36_FilesAreOfCurrentPath ==
    (ftpId # Null /\ Listing = {}) => cache.files = ListingOf(cache.currentPath)

\* C37: loading is true as long as a navigateTo or a refresh awaits an answer
\* of the backend; it is false only once none does.
C37_LoadingWhileInFlight == Listing # {} => cache.loading

\* ---------------------------------------------------------------- properties of the file list

\* s holds the entries of files, each once
Permutation(s, files) ==
    /\ Len(s) = Len(files)
    /\ \A i \in 1..Len(files) : Cardinality({j \in 1..Len(s) : s[j] = files[i]}) = 1

\* Every Directory of s is before every entry that is not one
DirectoriesFirst(s) ==
    \A i, j \in 1..Len(s) :
        (s[i].file_type = "Directory" /\ s[j].file_type # "Directory") => i < j

SameGroup(a, b) == (a.file_type = "Directory") <=> (b.file_type = "Directory")

\* The list of the example: b (File), A (Directory), a (File)
Example == <<FileEntry("b", "File"), FileEntry("A", "Directory"), FileEntry("a", "File")>>

\* C34 as stated, names in the order of their code units: sortedFiles is a
\* permutation of files, directories first, each group in non-decreasing order
\* of the names, and files is not modified.
C34_SortedByCodeUnit ==
    [][(~tree.rendered /\ tree'.rendered)
       => /\ tree'.files = tree.files
          /\ Permutation(tree'.sortedFiles, tree.files)
          /\ DirectoriesFirst(tree'.sortedFiles)
          /\ \A i, j \in 1..Len(tree'.sortedFiles) :
                 (i < j /\ SameGroup(tree'.sortedFiles[i], tree'.sortedFiles[j]))
                 => CodeUnit(tree'.sortedFiles[i].name) <= CodeUnit(tree'.sortedFiles[j].name)]_vars

\* C34, names in the order of the collation of the locale: sortedFiles is a
\* permutation of files, directories first, each group in non-decreasing
\* order of the names as localeCompare orders them (a, A, b, B), files is not
\* modified, and b (File), A (Directory), a (File) are presented as A, a, b.
C34_SortedByCollation ==
    [][(~tree.rendered /\ tree'.rendered)
       => /\ tree'.files = tree.files
          /\ Permutation(tree'.sortedFiles, tree.files)
          /\ DirectoriesFirst(tree'.sortedFiles)
          /\ \A i, j \in 1..Len(tree'.sortedFiles) :
                 (i < j /\ SameGroup(tree'.sortedFiles[i], tree'.sortedFiles[j]))
                 => \/ Primary(tree'.sortedFiles[i].name) < Primary(tree'.sortedFiles[j].name)
                    \/ /\ Primary(tree'.sortedFiles[i].name) = Primary(tree'.sortedFiles[j].name)
                       /\ CaseRank(tree'.sortedFiles[i].name) <= CaseRank(tree'.sortedFiles[j].name)
          /\ tree.files = Example
                 => tree'.sortedFiles = <<Example[2], Example[3], Example[1]>>]_vars

\* The list of the example has been rendered.
C34_Witness ==
    /\ tree.rendered
    /\ tree.files = Example
    /\ tree.sortedFiles # tree.files

\* ---------------------------------------------------------------- properties of open flows and listeners

\* C31: when the connect call of an open flow (direct SSH, saved connection,
\* VNC, RDP) fails, the five collections and activeTabId are as before: no tab
\* is added.
C31_FailedConnectAddsNoTab ==
    [][(flow.pc = "connecting" /\ flow'.pc = "failed")
       => (colls' = colls /\ activeTabId' = activeTabId)]_vars

\* The connect call of a flow has failed while a tab of an earlier flow is
\* open and active.
C31_Witness ==
    /\ flow.pc = "failed"
    /\ activeTabId \in OpenIds

\* C32: once the cleanup of a run of a listener effect has run, no listener
\* of that run is registered, whenever listen() resolves.
C32_NoListenerAfterCleanup ==
    /\ \A r \in RunsOf(termRuns) : termRuns[r].cleaned => termRuns[r].pc # "registered"
    /\ \A r \in RunsOf(vncRuns) : vncRuns[r].cleaned =>
           (vncRuns[r].frame # "registered" /\ vncRuns[r].error # "registered")

\* ---------------------------------------------------------------- further properties of the tab store

\* C40: a close operation called with an id its collection does not hold
\* leaves the five collections and activeTabId unchanged, also when the id
\* is the active tab of another kind.
C40_CloseOfAbsentIdChangesNothing ==
    [][((\E k \in Kinds : lastOp'.op = CloseOps[k]) /\ ~lastOp'.found)
       => (colls' = colls /\ activeTabId' = activeTabId)]_vars

\* C38: when close_terminal resolves, closeTerminal removes its tab from the
\* terminal tabs as they are at that moment and from no other collection, so
\* every other tab open then, whenever it was opened, is still open; and when
\* its tab is not the active one at that moment activeTabId stays as it is.
C38_CloseAppliesToCurrentState ==
    [][lastOp'.op = "closeTerminal"
       => /\ lastOp'.id \in IdsOf(tabs) =>
                 tabs' = WithoutPos(tabs, PosOf(tabs, lastOp'.id))
          /\ lastOp'.id \notin IdsOf(tabs) => tabs' = tabs
          /\ \A j \in Kinds \ {1} : colls[j]' = colls[j]
          /\ OpenIds \ {lastOp'.id} \subseteq OpenIds'
          /\ activeTabId # lastOp'.id => activeTabId' = activeTabId]_vars

\* close_terminal has resolved for a terminal tab that was not the active
\* one, with an FTP tab open and active and no call awaited any more.
C38_Witness ==
    /\ lastOp.op = "closeTerminal"
    /\ lastOp.found /\ ~lastOp.wasActive
    /\ Inflight = 0
    /\ activeTabId \in IdsOf(ftpTabs)
    /\ Len(tabs) >= 1

\* C39: when close_terminal fails the tab store is as before: the five
\* collections, with the tab at its position, and activeTabId.
C39_FailedCloseChangesNothing ==
    [][lastOp'.op = "closeTerminalReject"
       => (colls' = colls /\ activeTabId' = activeTabId)]_vars

\* close_terminal has failed for the active terminal tab, which is still open
\* and active.
C39_Witness ==
    /\ lastOp.op = "closeTerminalReject"
    /\ lastOp.id \in IdsOf(tabs)
    /\ activeTabId = lastOp.id

TypeOK ==
    /\ activeTabId \in Ids \cup {Null}
    /\ pendingCreate \in 0..MaxInflight
    /\ NumOpen <= NumIds
    /\ ftpId \in SessionIds \cup {Null}
    /\ Len(transfers) <= NumTransfers
    /\ \A j \in 1..Len(transfers) :
           /\ transfers[j].id \in TIds
           /\ transfers[j].status \in StatusValues
           /\ transfers[j].transferred_bytes \in 0..MaxBytes
           /\ transfers[j].total_bytes \in 0..MaxBytes
    /\ \A i \in TIds :
           /\ call[i].pc \in Positions
           /\ call[i].kind \in StartKinds
           /\ \A c \in Channels : listeners[i][c] \in NotRegistered..1
           /\ backend[i].state \in {"idle", "running", "completed", "failed"}
           /\ handled[i] \in {"none", "complete", "error"}
           /\ refreshCalls[i] \in 0..1
    /\ cache.currentPath \in Paths
    /\ cache.files \in Listings
    /\ cache.loading \in BOOLEAN
    /\ cache.error \in Messages \cup {NoError}
    /\ \A o \in OpIds :
           /\ ops[o].kind \in OpKinds \cup {"none"}
           /\ ops[o].pc \in Commands \cup {"idle"}
           /\ ops[o].sid \in SessionIds \cup {Null}
           /\ ops[o].result \in {"none", "returned", "caught", "rejected"}
           /\ ops[o].refreshes \in 0..1
           /\ localOps[o].pc \in {"idle", "local_list_dir"}
    /\ \A sid \in SessionIds : sessions[sid] \in {"none", "open", "closed"}
    /\ \A i \in Ids : sessionOf[i] \in SessionIds \cup {Null}
    /\ local.currentPath \in Paths \cup {<<>>}
    /\ local.files \in Listings
    /\ local.error \in Messages \cup {NoError}
    /\ cwd \in Paths
    /\ flow.kind \in FlowKinds \cup {"none"}
    /\ flow.pc \in {"idle", "connecting", "connected", "failed"}
    /\ unlistenRef \in Runs \cup {Null}
    /\ Len(termRuns) <= MaxRuns /\ Len(vncRuns) <= MaxRuns
    /\ \A r \in RunsOf(termRuns) : termRuns[r].pc \in {"listen", "registered", "unlistened"}
    /\ \A r \in RunsOf(vncRuns) : vncRuns[r].pc \in {"listenFrame", "listenError", "done"}
    /\ tree.files \in FileLists
    /\ tree.rendered \in BOOLEAN
    /\ trip.stage \in {"none", "navigating", "navigated", "refreshing", "refreshed"}

====
